---------------------------- MODULE Spec2Model ----------------------------
(***************************************************************************)
(* A model of the columnar object store adapter of helioscta_dash:         *)
(* PandasAzureWriter (gas/pricing/term_bible/pandas_azure_writer.py) over  *)
(* the blob storage client (utils/azure_blob_storage_utils.py); of the     *)
(* database helpers pull_from_db and upsert_to_azure_postgresql            *)
(* (utils/azure_postgresql.py); and of the pipeline logger                 *)
(* (utils/logging_utils.py).                                               *)
(*                                                                         *)
(* Python strings are sequences of one-character strings, so that          *)
(* endswith, startswith, split, rstrip and the f-strings of the source are *)
(* computed and not assumed.  A DataFrame is a record of its column names, *)
(* its rows and its index labels; a parquet blob keeps the columns and the *)
(* rows and drops the index (to_parquet(index=False)).                     *)
(***************************************************************************)
EXTENDS Integers, Sequences, FiniteSets, TLC

VARIABLES
    store,       \* the container: blob name -> blob content
    call,        \* per caller, the method it runs and that method's locals
    calls,       \* the number of writing calls begun
    uploads,     \* history: the number of upload requests the store has answered
    last_write,  \* history: the latest upload, when write_parquet made it
    pg,          \* the database call in flight, its connections and the commits
    lg           \* the logging module: the global instance, handlers and files

vars == <<store, call, calls, uploads, last_write, pg, lg>>

(***************************************************************************)
(* Bounds of the model.                                                    *)
(***************************************************************************)
MaxRows == 2
MaxConcRows == 1
MaxPartRows == 3
MaxChunkRows == 3
MaxChunkSize == 3
MaxCalls == 2

Callers == {"a", "b"}

-----------------------------------------------------------------------------
(***************************************************************************)
(* Python str operations.                                                  *)
(***************************************************************************)
Min(a, b) == IF a < b THEN a ELSE b
Max(a, b) == IF a > b THEN a ELSE b

EndsWith(s, suffix) ==
    /\ Len(s) >= Len(suffix)
    /\ SubSeq(s, Len(s) - Len(suffix) + 1, Len(s)) = suffix

StartsWith(s, prefix) ==
    /\ Len(s) >= Len(prefix)
    /\ SubSeq(s, 1, Len(prefix)) = prefix

RECURSIVE RStrip(_, _)
RStrip(s, ch) ==
    IF s # <<>> /\ s[Len(s)] = ch THEN RStrip(SubSeq(s, 1, Len(s) - 1), ch) ELSE s

\* The positions of ch in s.
Positions(s, ch) == {i \in 1..Len(s) : s[i] = ch}

SetMin(S) == CHOOSE x \in S : \A y \in S : x <= y
SetMax(S) == CHOOSE x \in S : \A y \in S : x >= y

\* s.split(ch): the pieces between the occurrences of ch.
RECURSIVE Split(_, _)
Split(s, ch) ==
    IF Positions(s, ch) = {} THEN <<s>>
    ELSE LET p == SetMin(Positions(s, ch))
         IN  <<SubSeq(s, 1, p - 1)>> \o Split(SubSeq(s, p + 1, Len(s)), ch)

\* s.split(ch, 1) of an s that holds ch: <<before the first ch, after it>>.
SplitFirst(s, ch) ==
    LET p == SetMin(Positions(s, ch))
    IN  <<SubSeq(s, 1, p - 1), SubSeq(s, p + 1, Len(s))>>

\* s.rsplit(ch, 1) of an s that holds ch: <<before the last ch, after it>>.
RSplitLast(s, ch) ==
    LET p == SetMax(Positions(s, ch))
    IN  <<SubSeq(s, 1, p - 1), SubSeq(s, p + 1, Len(s))>>

RECURSIVE Join(_, _)
Join(parts, sep) ==
    IF parts = <<>> THEN <<>>
    ELSE IF Len(parts) = 1 THEN parts[1]
    ELSE parts[1] \o sep \o Join(Tail(parts), sep)

Digit(d) == <<"0", "1", "2", "3", "4", "5", "6", "7", "8", "9">>[d + 1]

\* str(n) of a non-negative int.
RECURSIVE NatToStr(_)
NatToStr(n) ==
    IF n < 10 THEN <<Digit(n)>> ELSE NatToStr(n \div 10) \o <<Digit(n % 10)>>

\* f"{i:05d}" of a non-negative int: zero-padded to five digits, longer when
\* the number needs more.
RECURSIVE ZeroPad(_, _)
ZeroPad(s, width) == IF Len(s) >= width THEN s ELSE ZeroPad(<<"0">> \o s, width)

Format05d(i) == ZeroPad(NatToStr(i), 5)

\* Python's a // b (floor division) for b # 0.
FloorDiv(a, b) == IF b > 0 THEN a \div b ELSE (0 - a) \div (0 - b)

\* The literals of the source.
DotParquet == <<".", "p", "a", "r", "q", "u", "e", "t">>
DataParquet == <<"d", "a", "t", "a">> \o DotParquet
ChunkPrefix == <<"c", "h", "u", "n", "k", "_">>
Slash == <<"/">>

-----------------------------------------------------------------------------
(***************************************************************************)
(* Cell values and DataFrames.                                             *)
(***************************************************************************)
IntV(n) == [kind |-> "int", n |-> n, s |-> <<>>]
StrV(s) == [kind |-> "str", n |-> 0, s |-> s]
NullV == [kind |-> "null", n |-> 0, s |-> <<>>]

\* str(value), as the f-string of a partition segment renders it.
StrOf(v) ==
    CASE v.kind = "int" -> NatToStr(v.n)
      [] v.kind = "str" -> v.s
      [] OTHER -> <<"N", "o", "n", "e">>

RangeIndex(n) == [i \in 1..n |-> i - 1]

\* A DataFrame with the default index.
DataFrame(columns, rows) ==
    [columns |-> columns, rows |-> rows, index |-> RangeIndex(Len(rows))]

InColumns(col, df) == \E j \in 1..Len(df.columns) : df.columns[j] = col

ColPos(df, col) == CHOOSE j \in 1..Len(df.columns) : df.columns[j] = col

Cell(df, r, col) == df.rows[r][ColPos(df, col)]

\* A subsequence of s at the (ascending) positions of P.
RECURSIVE SelectAt(_, _)
SelectAt(s, P) ==
    IF P = {} THEN <<>>
    ELSE LET p == SetMin(P) IN <<s[p]>> \o SelectAt(s, P \ {p})

\* df.iloc[start:end]: Python slice bounds (negative counts from the end,
\* both clamped), the rows and their index labels kept.
SliceBound(x, n) == IF x < 0 THEN Max(x + n, 0) ELSE Min(x, n)

ILoc(df, start, end) ==
    LET n == Len(df.rows)
        lo == SliceBound(start, n)
        hi == SliceBound(end, n)
    IN  [columns |-> df.columns,
         rows |-> SubSeq(df.rows, lo + 1, hi),
         index |-> SubSeq(df.index, lo + 1, hi)]

\* df.drop(columns=cols), every col a column of df.
DropColumns(df, cols) ==
    LET keep == {j \in 1..Len(df.columns) :
                    \A k \in 1..Len(cols) : cols[k] # df.columns[j]}
    IN  [columns |-> SelectAt(df.columns, keep),
         rows |-> [r \in 1..Len(df.rows) |-> SelectAt(df.rows[r], keep)],
         index |-> df.index]

\* df[key] = value: the column set on every row, appended when it is new.
SetColumn(df, key, value) ==
    IF InColumns(key, df)
    THEN [df EXCEPT !.rows = [r \in 1..Len(df.rows) |->
                                 [df.rows[r] EXCEPT ![ColPos(df, key)] = value]]]
    ELSE [df EXCEPT !.columns = Append(df.columns, key),
                    !.rows = [r \in 1..Len(df.rows) |-> Append(df.rows[r], value)]]

\* pd.concat(dfs, ignore_index=True): the union of the columns in order of
\* first appearance, rows aligned by column name, a missing cell null, and a
\* fresh index.
RECURSIVE UnionColumns(_)
UnionColumns(dfs) ==
    IF dfs = <<>> THEN <<>>
    ELSE LET rest == UnionColumns(SubSeq(dfs, 1, Len(dfs) - 1))
             last == dfs[Len(dfs)]
             new == {j \in 1..Len(last.columns) :
                        \A k \in 1..Len(rest) : rest[k] # last.columns[j]}
         IN  rest \o SelectAt(last.columns, new)

Reindex(df, columns) ==
    [r \in 1..Len(df.rows) |->
        [j \in 1..Len(columns) |->
            IF InColumns(columns[j], df) THEN Cell(df, r, columns[j]) ELSE NullV]]

RECURSIVE ConcatRows(_, _)
ConcatRows(dfs, columns) ==
    IF dfs = <<>> THEN <<>>
    ELSE Reindex(dfs[1], columns) \o ConcatRows(Tail(dfs), columns)

Concat(dfs) ==
    LET columns == UnionColumns(dfs)
    IN  DataFrame(columns, ConcatRows(dfs, columns))

-----------------------------------------------------------------------------
(***************************************************************************)
(* The columnar codec: df.to_parquet(index=False) and pd.read_parquet.     *)
(* The blob keeps the column names in order and the rows in order; the     *)
(* index labels are not written, and a decoded frame has the default one.  *)
(* magic tells a parquet file from other content: read_parquet of other    *)
(* content raises the engine's error.                                      *)
(***************************************************************************)
Encode(df) == [magic |-> "PAR1", columns |-> df.columns, rows |-> df.rows]

\* The content of a blob that is no parquet file.
NotParquet == [magic |-> "text", columns |-> <<>>, rows |-> <<>>]

Decode(data) == DataFrame(data.columns, data.rows)

NoDF == DataFrame(<<>>, <<>>)

-----------------------------------------------------------------------------
(***************************************************************************)
(* The object store client.  The store maps blob names to blob contents.   *)
(***************************************************************************)
EmptyStore == <<>>

Put(s, name, data) ==
    [x \in DOMAIN s \cup {name} |-> IF x = name THEN data ELSE s[x]]

StorageAccount == <<"a", "c", "c", "t">>
Container == <<"c", "t", "r">>

\* get_blob_url, and the url upload_blob returns.
GetBlobUrl(blob_name) ==
    <<"h", "t", "t", "p", "s", ":", "/", "/">> \o StorageAccount
        \o <<".", "b", "l", "o", "b", ".", "c", "o", "r", "e", ".", "w", "i", "n",
             "d", "o", "w", "s", ".", "n", "e", "t", "/">>
        \o Container \o Slash \o blob_name

\* blob_exists, the service answering.
BlobExists(s, blob_name) == blob_name \in DOMAIN s

\* A client that never replaces an existing blob, whatever overwrite says.
UploadBlobNoClobber(s, data, blob_name, overwrite) ==
    IF BlobExists(s, blob_name)
    THEN [store |-> s, url |-> <<>>, err |-> "ResourceExistsError"]
    ELSE [store |-> Put(s, blob_name, data), url |-> GetBlobUrl(blob_name),
          err |-> "none"]

\* An upload that replaces the content of the container by its one blob.
UploadBlobClearsContainer(s, data, blob_name, overwrite) ==
    IF ~overwrite /\ BlobExists(s, blob_name)
    THEN [store |-> s, url |-> <<>>, err |-> "ResourceExistsError"]
    ELSE [store |-> Put(EmptyStore, blob_name, data), url |-> GetBlobUrl(blob_name),
          err |-> "none"]

\* upload_blob (through upload_file): the blob is put, unless overwrite is
\* off and the blob exists, which the service refuses (the AzureError is
\* logged and raised again).
UploadBlob(s, data, blob_name, overwrite) ==
    IF ~overwrite /\ BlobExists(s, blob_name)
    THEN [store |-> s, url |-> <<>>, err |-> "ResourceExistsError"]
    ELSE [store |-> Put(s, blob_name, data), url |-> GetBlobUrl(blob_name),
          err |-> "none"]

\* download_blob: the content, or the service's not-found error raised again.
DownloadBlob(s, blob_name) ==
    IF BlobExists(s, blob_name)
    THEN [data |-> s[blob_name], err |-> "none"]
    ELSE [data |-> Encode(NoDF), err |-> "ResourceNotFoundError"]

\* list_blobs(name_starts_with=prefix): the names with that prefix.
ListBlobs(s, prefix) == {name \in DOMAIN s : StartsWith(name, prefix)}

\* The orders in which a listing may hand over the names of S.
Orderings(S) ==
    {f \in [1..Cardinality(S) -> S] : \A i, j \in 1..Cardinality(S) : f[i] = f[j] => i = j}

\* delete_blob: the blob is removed and True returned, or the service's
\* not-found error is raised again.
DeleteBlob(s, blob_name) ==
    IF BlobExists(s, blob_name)
    THEN [store |-> [x \in DOMAIN s \ {blob_name} |-> s[x]], ok |-> TRUE,
          err |-> "none"]
    ELSE [store |-> s, ok |-> FALSE, err |-> "ResourceNotFoundError"]

-----------------------------------------------------------------------------
(***************************************************************************)
(* PandasAzureWriter: the straight-line parts of its methods.              *)
(***************************************************************************)
\* The extension appended without looking at the name.
NormalizeAlwaysAppends(blob_name) == blob_name \o DotParquet

\* write_parquet, "Ensure .parquet extension".
NormalizeBlobName(blob_name) ==
    IF ~EndsWith(blob_name, DotParquet) THEN blob_name \o DotParquet ELSE blob_name

\* write_parquet, "Add timestamp if requested": name_timestamp.ext.
TimestampedName(blob_name, include_timestamp, now) ==
    IF include_timestamp
    THEN LET parts == RSplitLast(blob_name, ".")
         IN  parts[1] \o <<"_">> \o now \o <<".">> \o parts[2]
    ELSE blob_name

\* write_parquet: the frame is encoded to the temporary file and the file is
\* uploaded under the normalized name.
WriteParquet(s, df, blob_name, overwrite, include_timestamp, now) ==
    UploadBlob(s, Encode(df),
               TimestampedName(NormalizeBlobName(blob_name), include_timestamp, now),
               overwrite)

\* read_parquet with columns=None and filters=None.
ReadParquet(s, blob_name) ==
    LET d == DownloadBlob(s, blob_name)
    IN  IF d.err # "none" THEN [df |-> NoDF, err |-> d.err]
        ELSE IF d.data.magic # "PAR1" THEN [df |-> NoDF, err |-> "ArrowInvalid"]
        ELSE [df |-> Decode(d.data), err |-> "none"]

\* The else branch writing the (empty) existing frame instead of the new one.
CombinedDfDropsNew(exists, existing_df, df) ==
    IF exists THEN Concat(<<existing_df, df>>) ELSE existing_df

\* append_parquet, "Combine with new data".
CombinedDf(exists, existing_df, df) ==
    IF exists THEN Concat(<<existing_df, df>>) ELSE df

-----------------------------------------------------------------------------
(***************************************************************************)
(* The calls in flight.  Each caller runs one method at a time; a method   *)
(* is cut into steps at its calls of the object store, so that the calls   *)
(* of two callers interleave there.  pre is the store as it was when the   *)
(* call began; read_at and wrote_at count the upload requests the store    *)
(* had answered when the call looked at it and when it answered the call's *)
(* own upload; failed names the store call of this call that the client    *)
(* could not complete; temp_dir says that the call holds the temporary     *)
(* directory of write_parquet.                                             *)
(***************************************************************************)
IdleCall ==
    [op |-> "idle", pc |-> "idle", df |-> NoDF, blob_name |-> <<>>,
     compression |-> "snappy", overwrite |-> TRUE, include_timestamp |-> FALSE,
     temp_dir |-> FALSE,
     partition_cols |-> <<>>, chunk_size |-> 0, partition_filter |-> <<>>,
     pre |-> EmptyStore, i |-> 0, num_chunks |-> 0, grouped |-> <<>>,
     blobs |-> <<>>, dfs |-> <<>>,
     exists |-> FALSE, existing_df |-> NoDF,
     urls |-> <<>>, url |-> <<>>, out_df |-> NoDF, err |-> "none",
     failed |-> "none", read_at |-> 0, wrote_at |-> 0]

Idle(c) == call[c].pc = "idle"

\* datetime.now().strftime('%Y%m%d_%H%M%S')
Timestamps == {<<"2", "0", "2", "5", "0", "1", "0", "1", "_", "0", "0", "0", "0", "0", "0">>}

\* The history of the latest writing call: what it was given and the store it
\* began from; valid when the call returned without error and nothing has been
\* uploaded since.
NoWrite ==
    [valid |-> FALSE, op |-> "none", df |-> NoDF, blob_name |-> <<>>,
     partition_cols |-> <<>>, chunk_size |-> 0, pre |-> EmptyStore]

Completed(c) ==
    [valid |-> TRUE, op |-> call[c].op, df |-> call[c].df,
     blob_name |-> call[c].blob_name, partition_cols |-> call[c].partition_cols,
     chunk_size |-> call[c].chunk_size, pre |-> call[c].pre]

\* The url put at the head of the list.
UrlsPrepend(urls, url) == <<url>> \o urls

\* urls.append(url)
UrlsAppend(urls, url) == Append(urls, url)

\* A loop that goes on to the next blob after a write that raised.
LoopPcSwallowsError(err, last) == IF last THEN "done" ELSE "loop"

\* Where a loop of writes or reads stands after one turn: an exception of
\* write_parquet or read_parquet is not caught and ends the method; else the
\* loop goes on until its last element.
LoopPc(err, last) == IF err # "none" \/ last THEN "done" ELSE "loop"

\* The store call of a turn that raised, if one did.
FailedCall(err, name, before) == IF err # "none" THEN name ELSE before

\* The codecs df.to_parquet knows (the docstring of write_parquet lists them).
Compressions == {"snappy", "gzip", "brotli", "lz4", "zstd", "none"}

\* df.to_parquet(temp_file, compression=compression, index=False): the file's
\* content, or the engine's error for a codec it does not know.
ToParquet(df, compression) ==
    IF compression \in Compressions
    THEN [data |-> Encode(df), err |-> "none"]
    ELSE [data |-> Encode(NoDF), err |-> "ArrowException"]

\* A directory that is removed only when the block ends without an exception.
RemovedOnSuccessOnly(held, err) == held /\ err # "none"

\* The end of "with tempfile.TemporaryDirectory() as temp_dir": the directory
\* and the file in it are removed, however the block ends.
TemporaryDirectoryExit(held, err) == FALSE

\* ---- write_parquet
\* The call enters the with block and writes the frame to the temporary file;
\* an error of to_parquet leaves the block and the method.
CallWriteParquet(c, df, blob_name, compression, overwrite, include_timestamp) ==
    /\ Idle(c)
    /\ calls < MaxCalls
    /\ LET t == ToParquet(df, compression)
       IN  call' = [call EXCEPT ![c] =
                  [IdleCall EXCEPT !.op = "write_parquet",
                                   !.pc = IF t.err = "none" THEN "upload" ELSE "done",
                                   !.df = df, !.blob_name = blob_name,
                                   !.compression = compression,
                                   !.overwrite = overwrite,
                                   !.include_timestamp = include_timestamp,
                                   !.err = t.err,
                                   !.temp_dir = IF t.err = "none" THEN TRUE
                                                ELSE TemporaryDirectoryExit(TRUE, t.err),
                                   !.pre = store]]
    /\ calls' = calls + 1
    /\ UNCHANGED <<store, uploads, last_write>>
    /\ UNCHANGED <<pg, lg>>

WriteParquetUpload(c) ==
    /\ call[c].op = "write_parquet"
    /\ call[c].pc = "upload"
    /\ \E now \in Timestamps :
         LET w == WriteParquet(store, call[c].df, call[c].blob_name,
                               call[c].overwrite, call[c].include_timestamp, now)
         IN  /\ store' = w.store
             /\ uploads' = uploads + 1
             /\ last_write' =
                  IF w.err = "none"
                  THEN [Completed(c) EXCEPT !.valid = ~call[c].include_timestamp]
                  ELSE last_write
             /\ call' = [call EXCEPT ![c].pc = "done", ![c].url = w.url,
                                     ![c].err = w.err,
                                     ![c].failed = FailedCall(w.err, "upload", @),
                                     ![c].temp_dir = TemporaryDirectoryExit(@, w.err),
                                     ![c].wrote_at = uploads + 1]
    /\ UNCHANGED calls
    /\ UNCHANGED <<pg, lg>>

\* ---- append_parquet
CallAppendParquet(c, df, blob_name) ==
    /\ Idle(c)
    /\ calls < MaxCalls
    /\ call' = [call EXCEPT ![c] =
                  [IdleCall EXCEPT !.op = "append_parquet", !.pc = "exists",
                                   !.df = df, !.blob_name = blob_name,
                                   !.pre = store]]
    /\ calls' = calls + 1
    /\ UNCHANGED <<store, uploads, last_write>>
    /\ UNCHANGED <<pg, lg>>

\* "Check if blob exists"
AppendExists(c) ==
    /\ call[c].op = "append_parquet"
    /\ call[c].pc = "exists"
    /\ LET e == BlobExists(store, call[c].blob_name)
       IN  call' = [call EXCEPT ![c].exists = e, ![c].read_at = uploads,
                                ![c].pc = IF e THEN "read" ELSE "write"]
    /\ UNCHANGED <<store, calls, uploads, last_write>>
    /\ UNCHANGED <<pg, lg>>

\* "Read existing data"
AppendRead(c) ==
    /\ call[c].op = "append_parquet"
    /\ call[c].pc = "read"
    /\ LET r == ReadParquet(store, call[c].blob_name)
       IN  call' = [call EXCEPT ![c].existing_df = r.df, ![c].err = r.err,
                                ![c].failed = FailedCall(r.err, "download", @),
                                ![c].read_at = uploads,
                                ![c].pc = IF r.err = "none" THEN "write" ELSE "done"]
    /\ UNCHANGED <<store, calls, uploads, last_write>>
    /\ UNCHANGED <<pg, lg>>

\* "Write combined data"
AppendWrite(c) ==
    /\ call[c].op = "append_parquet"
    /\ call[c].pc = "write"
    /\ \E now \in Timestamps :
         LET combined_df == CombinedDf(call[c].exists, call[c].existing_df, call[c].df)
             w == WriteParquet(store, combined_df, call[c].blob_name, TRUE, FALSE, now)
         IN  /\ store' = w.store
             /\ uploads' = uploads + 1
             /\ last_write' = IF w.err = "none" THEN NoWrite ELSE last_write
             /\ call' = [call EXCEPT ![c].pc = "done", ![c].url = w.url,
                                     ![c].err = w.err,
                                     ![c].failed = FailedCall(w.err, "upload", @),
                                     ![c].wrote_at = uploads + 1]
    /\ UNCHANGED calls
    /\ UNCHANGED <<pg, lg>>

\* ---- read_parquet
CallReadParquet(c, blob_name) ==
    /\ Idle(c)
    /\ call' = [call EXCEPT ![c] =
                  [IdleCall EXCEPT !.op = "read_parquet", !.pc = "download",
                                   !.blob_name = blob_name, !.pre = store]]
    /\ UNCHANGED <<store, calls, uploads, last_write>>
    /\ UNCHANGED <<pg, lg>>

\* The download that takes the blob out of the container.
ReadParquetDownloadConsumes(c) ==
    /\ call[c].op = "read_parquet"
    /\ call[c].pc = "download"
    /\ LET r == ReadParquet(store, call[c].blob_name)
       IN  call' = [call EXCEPT ![c].pc = "done", ![c].out_df = r.df,
                                ![c].err = r.err,
                                ![c].failed = FailedCall(r.err, "download", @),
                                ![c].read_at = uploads]
    /\ store' = DeleteBlob(store, call[c].blob_name).store
    /\ UNCHANGED <<calls, uploads, last_write>>
    /\ UNCHANGED <<pg, lg>>

ReadParquetDownload(c) ==
    /\ call[c].op = "read_parquet"
    /\ call[c].pc = "download"
    /\ LET r == ReadParquet(store, call[c].blob_name)
       IN  call' = [call EXCEPT ![c].pc = "done", ![c].out_df = r.df,
                                ![c].err = r.err,
                                ![c].failed = FailedCall(r.err, "download", @),
                                ![c].read_at = uploads]
    /\ UNCHANGED <<store, calls, uploads, last_write>>
    /\ UNCHANGED <<pg, lg>>

\* ---- blob_exists, delete_blob and list_blobs of the writer hand the call to
\* the client and its answer back.
CallBlobExists(c, blob_name) ==
    /\ Idle(c)
    /\ call' = [call EXCEPT ![c] =
                  [IdleCall EXCEPT !.op = "blob_exists", !.pc = "exists",
                                   !.blob_name = blob_name, !.pre = store]]
    /\ UNCHANGED <<store, calls, uploads, last_write>>
    /\ UNCHANGED <<pg, lg>>

BlobExistsAnswer(c) ==
    /\ call[c].op = "blob_exists"
    /\ call[c].pc = "exists"
    /\ call' = [call EXCEPT ![c].exists = BlobExists(store, call[c].blob_name),
                            ![c].read_at = uploads, ![c].pc = "done"]
    /\ UNCHANGED <<store, calls, uploads, last_write>>
    /\ UNCHANGED <<pg, lg>>

CallDeleteBlob(c, blob_name) ==
    /\ Idle(c)
    /\ calls < MaxCalls
    /\ call' = [call EXCEPT ![c] =
                  [IdleCall EXCEPT !.op = "delete_blob", !.pc = "delete",
                                   !.blob_name = blob_name, !.pre = store]]
    /\ calls' = calls + 1
    /\ UNCHANGED <<store, uploads, last_write>>
    /\ UNCHANGED <<pg, lg>>

DeleteBlobAnswer(c) ==
    /\ call[c].op = "delete_blob"
    /\ call[c].pc = "delete"
    /\ LET d == DeleteBlob(store, call[c].blob_name)
       IN  /\ store' = d.store
           /\ last_write' = IF d.err = "none" THEN NoWrite ELSE last_write
           /\ call' = [call EXCEPT ![c].pc = "done", ![c].err = d.err,
                                   ![c].failed = FailedCall(d.err, "delete", @)]
    /\ UNCHANGED <<calls, uploads>>
    /\ UNCHANGED <<pg, lg>>

CallListBlobs(c, prefix) ==
    /\ Idle(c)
    /\ call' = [call EXCEPT ![c] =
                  [IdleCall EXCEPT !.op = "list_blobs", !.pc = "list",
                                   !.blob_name = prefix, !.pre = store]]
    /\ UNCHANGED <<store, calls, uploads, last_write>>
    /\ UNCHANGED <<pg, lg>>

ListBlobsAnswer(c) ==
    /\ call[c].op = "list_blobs"
    /\ call[c].pc = "list"
    /\ \E all_blobs \in Orderings(ListBlobs(store, call[c].blob_name)) :
         call' = [call EXCEPT ![c].blobs = all_blobs, ![c].read_at = uploads,
                              ![c].pc = "done"]
    /\ UNCHANGED <<store, calls, uploads, last_write>>
    /\ UNCHANGED <<pg, lg>>

\* ---- get_blob_url: the client puts the url together; the service is not
\* called.
CallGetBlobUrl(c, blob_name) ==
    /\ Idle(c)
    /\ call' = [call EXCEPT ![c] =
                  [IdleCall EXCEPT !.op = "get_blob_url", !.pc = "done",
                                   !.blob_name = blob_name, !.pre = store,
                                   !.url = GetBlobUrl(blob_name)]]
    /\ UNCHANGED <<store, calls, uploads, last_write>>
    /\ UNCHANGED <<pg, lg>>

\* ---- get_parquet_info
CallGetParquetInfo(c, blob_name) ==
    /\ Idle(c)
    /\ call' = [call EXCEPT ![c] =
                  [IdleCall EXCEPT !.op = "get_parquet_info", !.pc = "download",
                                   !.blob_name = blob_name, !.pre = store]]
    /\ UNCHANGED <<store, calls, uploads, last_write>>
    /\ UNCHANGED <<pg, lg>>

\* The blob is downloaded and its footer read: num_rows in i, the column
\* names in blobs.  row_group(0) of a file of no rows is there or raises
\* IndexError, as the pyarrow that wrote the file made it.
GetParquetInfoDownload(c) ==
    /\ call[c].op = "get_parquet_info"
    /\ call[c].pc = "download"
    /\ LET r == ReadParquet(store, call[c].blob_name)
       IN  \E e \in {"none", "IndexError"} :
               /\ e = "IndexError" => r.err = "none" /\ r.df.rows = <<>>
               /\ call' = [call EXCEPT
                       ![c].pc = "done",
                       ![c].err = IF r.err # "none" THEN r.err ELSE e,
                       ![c].failed = FailedCall(r.err, "download", @),
                       ![c].i = IF r.err = "none" /\ e = "none"
                                THEN Len(r.df.rows) ELSE @,
                       ![c].blobs = IF r.err = "none" /\ e = "none"
                                    THEN r.df.columns ELSE @,
                       ![c].read_at = uploads]
    /\ UNCHANGED <<store, calls, uploads, last_write>>
    /\ UNCHANGED <<pg, lg>>

\* ---- the service failing a call of the client (network, auth, quota)
WritingOps == {"write_parquet", "append_parquet", "write_parquet_partitioned",
               "write_parquet_chunked"}

ReadingOps == {"read_parquet", "read_parquet_partitioned", "read_parquet_chunked"}

AtUpload(c) ==
    \/ call[c].op = "write_parquet" /\ call[c].pc = "upload"
    \/ call[c].op = "append_parquet" /\ call[c].pc = "write"
    \/ call[c].op \in {"write_parquet_partitioned", "write_parquet_chunked"}
           /\ call[c].pc = "loop"

AtDownload(c) ==
    \/ call[c].op \in {"read_parquet", "get_parquet_info"} /\ call[c].pc = "download"
    \/ call[c].op = "append_parquet" /\ call[c].pc = "read"
    \/ call[c].op \in {"read_parquet_partitioned", "read_parquet_chunked"}
           /\ call[c].pc = "loop"

\* upload_blob: the AzureError is logged and raised again; nothing is caught
\* on the way to the caller of the writer's method, the with block of
\* write_parquet is left.
UploadFault(c) ==
    /\ AtUpload(c)
    /\ call' = [call EXCEPT ![c].pc = "done", ![c].err = "AzureError",
                            ![c].failed = "upload",
                            ![c].temp_dir = TemporaryDirectoryExit(@, "AzureError")]
    /\ UNCHANGED <<store, calls, uploads, last_write>>
    /\ UNCHANGED <<pg, lg>>

\* download_blob: the AzureError is logged and raised again.
DownloadFault(c) ==
    /\ AtDownload(c)
    /\ call' = [call EXCEPT ![c].pc = "done", ![c].err = "AzureError",
                            ![c].failed = "download"]
    /\ UNCHANGED <<store, calls, uploads, last_write>>
    /\ UNCHANGED <<pg, lg>>

\* list_blobs: the AzureError is logged and raised again.
ListFault(c) ==
    /\ call[c].op \in {"read_parquet_partitioned", "read_parquet_chunked",
                       "list_blobs"}
    /\ call[c].pc = "list"
    /\ call' = [call EXCEPT ![c].pc = "done", ![c].err = "AzureError",
                            ![c].failed = "list"]
    /\ UNCHANGED <<store, calls, uploads, last_write>>
    /\ UNCHANGED <<pg, lg>>

\* blob_exists: the AzureError is logged and False is returned; append_parquet
\* takes its else branch, the writer's blob_exists returns the False.
ExistsFault(c) ==
    /\ call[c].op \in {"append_parquet", "blob_exists"}
    /\ call[c].pc = "exists"
    /\ call' = [call EXCEPT ![c].exists = FALSE, ![c].failed = "exists",
                            ![c].read_at = uploads,
                            ![c].pc = IF call[c].op = "append_parquet"
                                      THEN "write" ELSE "done"]
    /\ UNCHANGED <<store, calls, uploads, last_write>>
    /\ UNCHANGED <<pg, lg>>

\* delete_blob: the AzureError is logged and raised again.
DeleteFault(c) ==
    /\ call[c].op = "delete_blob"
    /\ call[c].pc = "delete"
    /\ call' = [call EXCEPT ![c].pc = "done", ![c].err = "AzureError",
                            ![c].failed = "delete"]
    /\ UNCHANGED <<store, calls, uploads, last_write>>
    /\ UNCHANGED <<pg, lg>>

\* The method returns (or raises) to its caller.
Return(c) ==
    /\ call[c].pc = "done"
    /\ call' = [call EXCEPT ![c] = IdleCall]
    /\ UNCHANGED <<store, calls, uploads, last_write>>
    /\ UNCHANGED <<pg, lg>>

-----------------------------------------------------------------------------
(***************************************************************************)
(* Inputs.                                                                 *)
(***************************************************************************)
ColYear == <<"y", "e", "a", "r">>
ColMonth == <<"m", "o", "n", "t", "h">>
ColV == <<"v">>
ColMissing == <<"z">>
Columns3 == <<ColYear, ColMonth, ColV>>

Row2023 == <<IntV(2023), IntV(1), IntV(10)>>
Row202 == <<IntV(202), IntV(1), IntV(20)>>
RowNull == <<NullV, IntV(2), IntV(30)>>

SeqsUpTo(S, n) == UNION {[1..k -> S] : k \in 0..n}

FramesOver(rowPool, maxRows) ==
    {DataFrame(Columns3, rows) : rows \in SeqsUpTo(rowPool, maxRows)}

FlatFrames == FramesOver({Row2023, Row202}, MaxRows)

PathX == <<"x">>
PathXParquet == PathX \o DotParquet
FlatPaths == {PathX, PathXParquet}

SeedFrame == DataFrame(Columns3, <<Row202>>)

\* What the container may hold when the writer is constructed.
FlatSeeds ==
    {EmptyStore,
     Put(EmptyStore, PathXParquet, Encode(SeedFrame)),
     Put(EmptyStore, PathX, Encode(SeedFrame))}

\* No database call in flight, no connection open, nothing committed.
PgIdle ==
    [op |-> "idle", pc |-> 0, begun |-> 0, open |-> 0, cursors |-> 0, tx |-> <<>>,
     committed |-> <<>>, base |-> 0, commits |-> 0, logged |-> 0,
     raised |-> FALSE, failed |-> "none"]

\* The levels of the logging module.
DEBUG == 10
INFO == 20
WARNING == 30
ERROR == 40
CRITICAL == 50

\* The loggers of the model: the root logger and two named loggers.
LoggerNames == {"p", "q"}

Loggers == LoggerNames \cup {"root"}

\* The logging module as imported: _logger_instance = None, no
\* PipelineLogger made, the loggers without handlers, the root logger at
\* WARNING and the named loggers taking their level from it, no log file.
LgInit ==
    [instance |-> 0, made |-> 0, inst |-> <<>>,
     handlers |-> [n \in Loggers |-> {}],
     level |-> [n \in Loggers |-> IF n = "root" THEN WARNING ELSE 0],
     propagate |-> [n \in Loggers |-> TRUE],
     open |-> {}, files |-> <<>>, records |-> 0, got |-> "none"]

InitCalls ==
    /\ call = [c \in Callers |-> IdleCall]
    /\ calls = 0
    /\ uploads = 0
    /\ last_write = NoWrite
    /\ pg = PgIdle
    /\ lg = LgInit

-----------------------------------------------------------------------------
(***************************************************************************)
(* Spec: one caller, flat writes, appends and reads, one call at a time.   *)
(***************************************************************************)
Init ==
    /\ store \in FlatSeeds
    /\ InitCalls

BeginWriteParquet ==
    \E df \in FlatFrames, blob_name \in FlatPaths, overwrite \in BOOLEAN,
       include_timestamp \in BOOLEAN :
        CallWriteParquet("a", df, blob_name, "snappy", overwrite, include_timestamp)

BeginAppendParquet ==
    \E df \in FlatFrames, blob_name \in FlatPaths :
        CallAppendParquet("a", df, blob_name)

BeginReadParquet ==
    \E blob_name \in FlatPaths : CallReadParquet("a", blob_name)

Next ==
    \/ BeginWriteParquet
    \/ BeginAppendParquet
    \/ BeginReadParquet
    \/ WriteParquetUpload("a")
    \/ AppendExists("a")
    \/ AppendRead("a")
    \/ AppendWrite("a")
    \/ ReadParquetDownload("a")
    \/ Return("a")

Spec == Init /\ [][Next]_vars

-----------------------------------------------------------------------------
(***************************************************************************)
(* SpecFault: the flat calls and blob_exists, delete_blob and list_blobs,  *)
(* over a service that may fail any call of the client.                    *)
(***************************************************************************)
BeginBlobExists == \E blob_name \in FlatPaths : CallBlobExists("a", blob_name)

BeginDeleteBlob == \E blob_name \in FlatPaths : CallDeleteBlob("a", blob_name)

BeginListBlobs == \E prefix \in {<<>>, PathX} : CallListBlobs("a", prefix)

NextFault ==
    \/ Next
    \/ BeginBlobExists
    \/ BlobExistsAnswer("a")
    \/ BeginDeleteBlob
    \/ DeleteBlobAnswer("a")
    \/ BeginListBlobs
    \/ ListBlobsAnswer("a")
    \/ UploadFault("a")
    \/ DownloadFault("a")
    \/ ListFault("a")
    \/ ExistsFault("a")
    \/ DeleteFault("a")

SpecFault == Init /\ [][NextFault]_vars

-----------------------------------------------------------------------------
(***************************************************************************)
(* SpecSchema: the flat calls on a container whose blob "x.parquet" has    *)
(* the columns of the frames to come, or other columns.                    *)
(***************************************************************************)
OtherFrame == DataFrame(<<ColYear, ColV>>, <<<<IntV(2023), IntV(10)>>>>)

SchemaSeeds ==
    {Put(EmptyStore, PathXParquet, Encode(SeedFrame)),
     Put(EmptyStore, PathXParquet, Encode(OtherFrame))}

InitSchema ==
    /\ store \in SchemaSeeds
    /\ InitCalls

SpecSchema == InitSchema /\ [][Next]_vars

-----------------------------------------------------------------------------
(***************************************************************************)
(* SpecConc: two callers appending, their store calls interleaved.         *)
(***************************************************************************)
ConcFrames == FramesOver({Row2023, Row202}, MaxConcRows)

ConcBeginAppend ==
    \E c \in Callers, df \in ConcFrames, blob_name \in FlatPaths :
        CallAppendParquet(c, df, blob_name)

ConcStep ==
    \E c \in Callers :
        \/ AppendExists(c)
        \/ AppendRead(c)
        \/ AppendWrite(c)
        \/ Return(c)

NextConc == ConcBeginAppend \/ ConcStep

SpecConc == Init /\ [][NextConc]_vars

-----------------------------------------------------------------------------
(***************************************************************************)
(* SpecTemp: write_parquet with a codec to_parquet knows or one it does    *)
(* not, over a service that may fail the upload.                           *)
(***************************************************************************)
CodecInputs == {"snappy", "bogus"}

TempBeginWrite ==
    \E df \in ConcFrames, blob_name \in FlatPaths, compression \in CodecInputs,
       overwrite \in BOOLEAN, include_timestamp \in BOOLEAN :
        CallWriteParquet("a", df, blob_name, compression, overwrite, include_timestamp)

NextTemp ==
    \/ TempBeginWrite
    \/ WriteParquetUpload("a")
    \/ UploadFault("a")
    \/ Return("a")

SpecTemp == Init /\ [][NextTemp]_vars

-----------------------------------------------------------------------------
(***************************************************************************)
(* SpecIndep: two callers writing and appending at once, caller a under    *)
(* the path "x" and caller b under the path "y".                           *)
(***************************************************************************)
PathY == <<"y">>
PathYParquet == PathY \o DotParquet

PathsOf(c) == IF c = "a" THEN {PathX, PathXParquet} ELSE {PathY, PathYParquet}

IndepSeeds ==
    {EmptyStore,
     Put(Put(EmptyStore, PathXParquet, Encode(SeedFrame)),
         PathYParquet, Encode(SeedFrame))}

InitIndep ==
    /\ store \in IndepSeeds
    /\ InitCalls

IndepFrames == {DataFrame(Columns3, <<>>), DataFrame(Columns3, <<Row2023>>)}

IndepBeginWrite ==
    \E c \in Callers, df \in IndepFrames, overwrite \in BOOLEAN :
        \E blob_name \in PathsOf(c) :
            CallWriteParquet(c, df, blob_name, "snappy", overwrite, FALSE)

IndepBeginAppend ==
    \E c \in Callers, df \in IndepFrames :
        \E blob_name \in PathsOf(c) : CallAppendParquet(c, df, blob_name)

IndepStep ==
    \E c \in Callers :
        \/ WriteParquetUpload(c)
        \/ AppendExists(c)
        \/ AppendRead(c)
        \/ AppendWrite(c)
        \/ Return(c)

NextIndep == IndepBeginWrite \/ IndepBeginAppend \/ IndepStep

SpecIndep == InitIndep /\ [][NextIndep]_vars

-----------------------------------------------------------------------------
(***************************************************************************)
(* write_parquet_partitioned and read_parquet_partitioned.                 *)
(***************************************************************************)
\* The check looking at the first name only.
MissingFirstOnly(df, partition_cols) ==
    {k \in 1..Min(1, Len(partition_cols)) : ~InColumns(partition_cols[k], df)}

\* "Ensure partition columns exist": the positions of the names that are no
\* column of df.
MissingPartitionCols(df, partition_cols) ==
    {k \in 1..Len(partition_cols) : ~InColumns(partition_cols[k], df)}

\* The error write_parquet_partitioned raises before its loop: its own
\* ValueError for a missing column, else what df.groupby raises (no keys, or
\* a key that is no column).
PartitionedError(df, partition_cols) ==
    IF MissingPartitionCols(df, partition_cols) # {} THEN "ValueError"
    ELSE IF partition_cols = <<>> THEN "ValueError"
    ELSE IF \E k \in 1..Len(partition_cols) : ~InColumns(partition_cols[k], df)
         THEN "KeyError"
    ELSE "none"

\* The group key of row r: its cells in the partition columns.
KeyOf(df, r, partition_cols) ==
    [k \in 1..Len(partition_cols) |-> Cell(df, r, partition_cols[k])]

\* Keys compare as tuples of ints, position by position.
KeyLess(k1, k2) ==
    \E j \in 1..Len(k1) :
        /\ \A h \in 1..(j - 1) : k1[h].n = k2[h].n
        /\ k1[j].n < k2[j].n

RECURSIVE SortKeys(_)
SortKeys(keys) ==
    IF keys = {} THEN <<>>
    ELSE LET least == CHOOSE k \in keys : \A other \in keys \ {k} : KeyLess(k, other)
         IN  <<least>> \o SortKeys(keys \ {least})

\* df.groupby(partition_cols) with its defaults (sort=True, dropna=True): the
\* rows with a null in a key column belong to no group; the groups come in
\* ascending key order; a group keeps its rows in their order, with their
\* index labels.
GroupBy(df, partition_cols) ==
    LET kept == {r \in 1..Len(df.rows) :
                    \A k \in 1..Len(partition_cols) :
                        KeyOf(df, r, partition_cols)[k].kind # "null"}
        keys == {KeyOf(df, r, partition_cols) : r \in kept}
        sorted == SortKeys(keys)
        members(key) == {r \in kept : KeyOf(df, r, partition_cols) = key}
    IN  [g \in 1..Len(sorted) |->
            [key |-> sorted[g],
             df |-> [columns |-> df.columns,
                     rows |-> SelectAt(df.rows, members(sorted[g])),
                     index |-> SelectAt(df.index, members(sorted[g]))]]]

\* The segments in the reverse of the order of partition_cols.
PartitionBlobNameReversed(base_blob_path, partition_cols, partition_values) ==
    LET n == Len(partition_cols)
        partition_path_parts ==
            [k \in 1..n |->
                partition_cols[n + 1 - k] \o <<"=">> \o StrOf(partition_values[n + 1 - k])]
    IN  base_blob_path \o Slash \o Join(partition_path_parts, Slash)
            \o Slash \o DataParquet

\* "Build partition path": base/col1=val1/col2=val2/data.parquet.  (A single
\* key that pandas hands over as a scalar gives the same one segment.)
PartitionBlobName(base_blob_path, partition_cols, partition_values) ==
    LET partition_path_parts ==
            [k \in 1..Len(partition_cols) |->
                partition_cols[k] \o <<"=">> \o StrOf(partition_values[k])]
    IN  base_blob_path \o Slash \o Join(partition_path_parts, Slash)
            \o Slash \o DataParquet

\* read_parquet_partitioned, "Build search prefix"; partition_filter is the
\* dict's items in insertion order.
RECURSIVE FilterSuffix(_)
FilterSuffix(partition_filter) ==
    IF partition_filter = <<>> THEN <<>>
    ELSE Slash \o partition_filter[1][1] \o <<"=">> \o partition_filter[1][2]
             \o FilterSuffix(Tail(partition_filter))

SearchPrefix(base_blob_path, partition_filter) ==
    RStrip(base_blob_path, "/") \o FilterSuffix(partition_filter)

\* The segments adding the columns the decoded table lacks, and leaving the
\* columns it has as they were decoded.
RECURSIVE AddPartitionColumnsKeepsDecoded(_, _)
AddPartitionColumnsKeepsDecoded(df, path_parts) ==
    IF path_parts = <<>> THEN df
    ELSE LET part == path_parts[1]
             next == IF /\ Positions(part, "=") # {}
                        /\ ~InColumns(SplitFirst(part, "=")[1], df)
                     THEN SetColumn(df, SplitFirst(part, "=")[1],
                                    StrV(SplitFirst(part, "=")[2]))
                     ELSE df
         IN  AddPartitionColumnsKeepsDecoded(next, Tail(path_parts))

\* "Extract and add partition columns from path": every part of the blob's
\* name that holds "=" sets a column to the text after the first "=".
RECURSIVE AddPartitionColumns(_, _)
AddPartitionColumns(df, path_parts) ==
    IF path_parts = <<>> THEN df
    ELSE LET part == path_parts[1]
             next == IF Positions(part, "=") # {}
                     THEN SetColumn(df, SplitFirst(part, "=")[1],
                                    StrV(SplitFirst(part, "=")[2]))
                     ELSE df
         IN  AddPartitionColumns(next, Tail(path_parts))

\* The listing taken as it comes, whatever the names end with.
ParquetOnlyKeepsAll(all_blobs) == all_blobs

\* [b for b in all_blobs if b.endswith('.parquet')]
RECURSIVE ParquetOnly(_)
ParquetOnly(all_blobs) ==
    IF all_blobs = <<>> THEN <<>>
    ELSE (IF EndsWith(all_blobs[1], DotParquet) THEN <<all_blobs[1]>> ELSE <<>>)
             \o ParquetOnly(Tail(all_blobs))

CallWritePartitioned(c, df, base_blob_path, partition_cols, overwrite) ==
    /\ Idle(c)
    /\ calls = 0
    /\ LET e == PartitionedError(df, partition_cols)
           grouped == IF e = "none" THEN GroupBy(df, partition_cols) ELSE <<>>
           begun == [IdleCall EXCEPT !.op = "write_parquet_partitioned",
                                     !.df = df, !.blob_name = base_blob_path,
                                     !.partition_cols = partition_cols,
                                     !.overwrite = overwrite, !.pre = store,
                                     !.grouped = grouped, !.i = 1, !.err = e,
                                     !.pc = IF grouped = <<>> THEN "done" ELSE "loop"]
       IN  /\ call' = [call EXCEPT ![c] = begun]
           /\ last_write' = IF e = "none" /\ grouped = <<>>
                            THEN [valid |-> TRUE, op |-> begun.op, df |-> df,
                                  blob_name |-> base_blob_path,
                                  partition_cols |-> partition_cols,
                                  chunk_size |-> 0, pre |-> store]
                            ELSE last_write
    /\ calls' = calls + 1
    /\ UNCHANGED <<store, uploads>>
    /\ UNCHANGED <<pg, lg>>

\* One turn of "for partition_values, group_df in grouped".
PartitionedWrite(c) ==
    /\ call[c].op = "write_parquet_partitioned"
    /\ call[c].pc = "loop"
    /\ \E now \in Timestamps :
         LET group == call[c].grouped[call[c].i]
             blob_name == PartitionBlobName(call[c].blob_name,
                                            call[c].partition_cols, group.key)
             data_to_write == DropColumns(group.df, call[c].partition_cols)
             w == WriteParquet(store, data_to_write, blob_name,
                               call[c].overwrite, FALSE, now)
             last == call[c].i = Len(call[c].grouped)
         IN  /\ store' = w.store
             /\ uploads' = uploads + 1
             /\ call' = [call EXCEPT
                   ![c].err = w.err,
                   ![c].failed = FailedCall(w.err, "upload", @),
                   ![c].urls = IF w.err = "none" THEN UrlsAppend(@, w.url) ELSE @,
                   ![c].i = @ + 1,
                   ![c].wrote_at = uploads + 1,
                   ![c].pc = LoopPc(w.err, last)]
             /\ last_write' = IF w.err # "none" THEN last_write
                              ELSE IF last THEN Completed(c)
                              ELSE NoWrite
    /\ UNCHANGED calls
    /\ UNCHANGED <<pg, lg>>

CallReadPartitioned(c, base_blob_path, partition_filter) ==
    /\ Idle(c)
    /\ call' = [call EXCEPT ![c] =
                  [IdleCall EXCEPT !.op = "read_parquet_partitioned", !.pc = "list",
                                   !.blob_name = base_blob_path,
                                   !.partition_filter = partition_filter,
                                   !.pre = store]]
    /\ UNCHANGED <<store, calls, uploads, last_write>>
    /\ UNCHANGED <<pg, lg>>

\* "Find all parquet files"
ReadPartitionedList(c) ==
    /\ call[c].op = "read_parquet_partitioned"
    /\ call[c].pc = "list"
    /\ \E all_blobs \in Orderings(ListBlobs(store,
                            SearchPrefix(call[c].blob_name, call[c].partition_filter))) :
         LET parquet_blobs == ParquetOnly(all_blobs)
         IN  call' = [call EXCEPT
                 ![c].blobs = parquet_blobs, ![c].i = 1, ![c].read_at = uploads,
                 ![c].err = IF parquet_blobs = <<>> THEN "ValueError" ELSE "none",
                 ![c].pc = IF parquet_blobs = <<>> THEN "done" ELSE "loop"]
    /\ UNCHANGED <<store, calls, uploads, last_write>>
    /\ UNCHANGED <<pg, lg>>

\* One turn of "for blob in parquet_blobs", and "Combine" after the last.
ReadPartitionedLoop(c) ==
    /\ call[c].op = "read_parquet_partitioned"
    /\ call[c].pc = "loop"
    /\ LET blob == call[c].blobs[call[c].i]
           r == ReadParquet(store, blob)
           df == AddPartitionColumns(r.df, Split(blob, "/"))
           dfs == Append(call[c].dfs, df)
           last == call[c].i = Len(call[c].blobs)
       IN  call' = [call EXCEPT
               ![c].err = r.err,
               ![c].failed = FailedCall(r.err, "download", @),
               ![c].dfs = IF r.err = "none" THEN dfs ELSE @,
               ![c].i = @ + 1,
               ![c].out_df = IF r.err = "none" /\ last THEN Concat(dfs) ELSE @,
               ![c].pc = LoopPc(r.err, last)]
    /\ UNCHANGED <<store, calls, uploads, last_write>>
    /\ UNCHANGED <<pg, lg>>

\* Inputs of the partitioned calls.
PartFrames == FramesOver({Row2023, Row202, RowNull}, MaxPartRows)

PartitionColumnLists ==
    {<<ColYear>>, <<ColMonth>>, <<ColYear, ColMonth>>, <<ColMonth, ColYear>>,
     <<ColMissing>>, <<ColYear, ColMissing>>, <<ColMissing, ColYear>>, <<>>}

PathB == <<"b">>

PartitionFilters ==
    {<<>>, <<<<ColYear, NatToStr(2023)>>>>, <<<<ColYear, NatToStr(202)>>>>}

\* The container empty, or holding one partition of an earlier data set.
PartSeeds ==
    {EmptyStore,
     Put(EmptyStore, PartitionBlobName(PathB, <<ColYear>>, <<IntV(2023)>>),
         Encode(DropColumns(SeedFrame, <<ColYear>>)))}

(***************************************************************************)
(* SpecPart: one write_parquet_partitioned call, and partitioned reads.    *)
(***************************************************************************)
InitPart ==
    /\ store \in PartSeeds
    /\ InitCalls

BeginWritePartitioned ==
    \E df \in PartFrames, partition_cols \in PartitionColumnLists,
       overwrite \in BOOLEAN :
        CallWritePartitioned("a", df, PathB, partition_cols, overwrite)

BeginReadPartitioned ==
    \E base_blob_path \in {PathB, PathB \o Slash},
       partition_filter \in PartitionFilters :
        CallReadPartitioned("a", base_blob_path, partition_filter)

NextPart ==
    \/ BeginWritePartitioned
    \/ PartitionedWrite("a")
    \/ BeginReadPartitioned
    \/ ReadPartitionedList("a")
    \/ ReadPartitionedLoop("a")
    \/ Return("a")

SpecPart == InitPart /\ [][NextPart]_vars

-----------------------------------------------------------------------------
(***************************************************************************)
(* write_parquet_chunked and read_parquet_chunked.                         *)
(***************************************************************************)
\* Floor division where the ceiling was meant.
NumChunksFloor(row_count, chunk_size) == FloorDiv(row_count, chunk_size)

\* A ceiling computed as the quotient plus one.
NumChunksQuotientPlusOne(row_count, chunk_size) == FloorDiv(row_count, chunk_size) + 1

\* "Ceiling division": (len(df) + chunk_size - 1) // chunk_size.
NumChunks(row_count, chunk_size) ==
    FloorDiv(row_count + chunk_size - 1, chunk_size)

\* "Create chunk filename"
ChunkBlobName(base_blob_path, i) ==
    base_blob_path \o Slash \o ChunkPrefix \o Format05d(i) \o DotParquet

\* df.iloc[start_idx:end_idx] of chunk i.
ChunkDf(df, i, chunk_size) ==
    LET start_idx == i * chunk_size
        end_idx == Min((i + 1) * chunk_size, Len(df.rows))
    IN  ILoc(df, start_idx, end_idx)

\* sorted() of str: by code point, a proper prefix first.
AsciiOrder ==
    <<".", "/", "0", "1", "2", "3", "4", "5", "6", "7", "8", "9", "=", "N", "_",
      "a", "b", "c", "d", "e", "h", "k", "m", "n", "o", "p", "q", "r", "t", "u",
      "v", "x", "y", "z">>

Ord(ch) == CHOOSE i \in 1..Len(AsciiOrder) : AsciiOrder[i] = ch

StrLess(a, b) ==
    \/ Len(a) < Len(b) /\ SubSeq(b, 1, Len(a)) = a
    \/ \E j \in 1..Min(Len(a), Len(b)) :
           /\ SubSeq(a, 1, j - 1) = SubSeq(b, 1, j - 1)
           /\ Ord(a[j]) < Ord(b[j])

RECURSIVE SortedNames(_)
SortedNames(names) ==
    IF names = {} THEN <<>>
    ELSE LET least == CHOOSE x \in names : \A y \in names \ {x} : StrLess(x, y)
         IN  <<least>> \o SortedNames(names \ {least})

Range(f) == {f[j] : j \in 1..Len(f)}

CallWriteChunked(c, df, base_blob_path, chunk_size, overwrite) ==
    /\ Idle(c)
    /\ calls < MaxCalls
    /\ LET e == IF chunk_size = 0 THEN "ZeroDivisionError" ELSE "none"
           num_chunks == IF e = "none" THEN NumChunks(Len(df.rows), chunk_size) ELSE 0
           begun == [IdleCall EXCEPT !.op = "write_parquet_chunked",
                                     !.df = df, !.blob_name = base_blob_path,
                                     !.chunk_size = chunk_size,
                                     !.overwrite = overwrite, !.pre = store,
                                     !.num_chunks = num_chunks, !.i = 0, !.err = e,
                                     !.pc = IF num_chunks > 0 THEN "loop" ELSE "done"]
       IN  /\ call' = [call EXCEPT ![c] = begun]
           /\ last_write' = IF e = "none" /\ num_chunks <= 0
                            THEN [valid |-> TRUE, op |-> begun.op, df |-> df,
                                  blob_name |-> base_blob_path,
                                  partition_cols |-> <<>>,
                                  chunk_size |-> chunk_size, pre |-> store]
                            ELSE last_write
    /\ calls' = calls + 1
    /\ UNCHANGED <<store, uploads>>
    /\ UNCHANGED <<pg, lg>>

\* One turn of "for i in range(num_chunks)".
ChunkedWrite(c) ==
    /\ call[c].op = "write_parquet_chunked"
    /\ call[c].pc = "loop"
    /\ \E now \in Timestamps :
         LET chunk_df == ChunkDf(call[c].df, call[c].i, call[c].chunk_size)
             blob_name == ChunkBlobName(call[c].blob_name, call[c].i)
             w == WriteParquet(store, chunk_df, blob_name, call[c].overwrite,
                               FALSE, now)
             last == call[c].i + 1 = call[c].num_chunks
         IN  /\ store' = w.store
             /\ uploads' = uploads + 1
             /\ call' = [call EXCEPT
                   ![c].err = w.err,
                   ![c].failed = FailedCall(w.err, "upload", @),
                   ![c].urls = IF w.err = "none" THEN UrlsAppend(@, w.url) ELSE @,
                   ![c].i = @ + 1,
                   ![c].wrote_at = uploads + 1,
                   ![c].pc = LoopPc(w.err, last)]
             /\ last_write' = IF w.err # "none" THEN last_write
                              ELSE IF last THEN Completed(c)
                              ELSE NoWrite
    /\ UNCHANGED calls
    /\ UNCHANGED <<pg, lg>>

\* read_parquet_chunked with process_func=None.
CallReadChunked(c, base_blob_path) ==
    /\ Idle(c)
    /\ call' = [call EXCEPT ![c] =
                  [IdleCall EXCEPT !.op = "read_parquet_chunked", !.pc = "list",
                                   !.blob_name = base_blob_path, !.pre = store]]
    /\ UNCHANGED <<store, calls, uploads, last_write>>
    /\ UNCHANGED <<pg, lg>>

\* "Find all chunk files"
ReadChunkedList(c) ==
    /\ call[c].op = "read_parquet_chunked"
    /\ call[c].pc = "list"
    /\ \E all_blobs \in Orderings(ListBlobs(store, call[c].blob_name)) :
         LET chunk_blobs == SortedNames(Range(ParquetOnly(all_blobs)))
         IN  call' = [call EXCEPT
                 ![c].blobs = chunk_blobs, ![c].i = 1, ![c].read_at = uploads,
                 ![c].err = IF chunk_blobs = <<>> THEN "ValueError" ELSE "none",
                 ![c].pc = IF chunk_blobs = <<>> THEN "done" ELSE "loop"]
    /\ UNCHANGED <<store, calls, uploads, last_write>>
    /\ UNCHANGED <<pg, lg>>

\* One turn of "for blob in chunk_blobs", and "Combine" after the last.
ReadChunkedLoop(c) ==
    /\ call[c].op = "read_parquet_chunked"
    /\ call[c].pc = "loop"
    /\ LET blob == call[c].blobs[call[c].i]
           r == ReadParquet(store, blob)
           dfs == Append(call[c].dfs, r.df)
           last == call[c].i = Len(call[c].blobs)
       IN  call' = [call EXCEPT
               ![c].err = r.err,
               ![c].failed = FailedCall(r.err, "download", @),
               ![c].dfs = IF r.err = "none" THEN dfs ELSE @,
               ![c].i = @ + 1,
               ![c].out_df = IF r.err = "none" /\ last THEN Concat(dfs) ELSE @,
               ![c].pc = LoopPc(r.err, last)]
    /\ UNCHANGED <<store, calls, uploads, last_write>>
    /\ UNCHANGED <<pg, lg>>

\* Inputs of the chunked calls: frames whose rows differ by position.
NumberedRow(i) == <<IntV(2023), IntV(i), IntV(10 * i)>>

ChunkFrames ==
    {DataFrame(Columns3, [i \in 1..n |-> NumberedRow(i)]) : n \in 0..MaxChunkRows}

ChunkSizes == (0 - MaxChunkSize)..MaxChunkSize

PathC == <<"c">>

\* The container empty, or holding the second chunk of an earlier data set,
\* or chunks 99999 and 100000 of an earlier data set of more than a hundred
\* thousand chunks.
ChunkSeeds ==
    {EmptyStore,
     Put(EmptyStore, ChunkBlobName(PathC, 1), Encode(SeedFrame)),
     Put(Put(EmptyStore, ChunkBlobName(PathC, 99999), Encode(SeedFrame)),
         ChunkBlobName(PathC, 100000), Encode(DataFrame(Columns3, <<Row2023>>)))}

(***************************************************************************)
(* SpecChunk: write_parquet_chunked calls and chunked reads, one at a time. *)
(***************************************************************************)
InitChunk ==
    /\ store \in ChunkSeeds
    /\ InitCalls

BeginWriteChunked ==
    \E df \in ChunkFrames, chunk_size \in ChunkSizes, overwrite \in BOOLEAN :
        CallWriteChunked("a", df, PathC, chunk_size, overwrite)

BeginReadChunked == CallReadChunked("a", PathC)

NextChunk ==
    \/ BeginWriteChunked
    \/ ChunkedWrite("a")
    \/ BeginReadChunked
    \/ ReadChunkedList("a")
    \/ ReadChunkedLoop("a")
    \/ Return("a")

SpecChunk == InitChunk /\ [][NextChunk]_vars

-----------------------------------------------------------------------------
(***************************************************************************)
(* SpecBoth: one partitioned or chunked write, and partitioned and chunked *)
(* reads, in one container, which may hold blobs of an earlier data set or *)
(* blobs that are no parquet files; the service may fail an upload.        *)
(***************************************************************************)
MaxBothRows == 2

DotTxt == <<".", "t", "x", "t">>

BothFrames == FramesOver({Row2023, Row202, RowNull}, MaxBothRows)

BothSeeds ==
    {EmptyStore,
     Put(Put(EmptyStore, PartitionBlobName(PathB, <<ColYear>>, <<IntV(2023)>>),
             Encode(DropColumns(SeedFrame, <<ColYear>>))),
         ChunkBlobName(PathC, 1), Encode(SeedFrame)),
     Put(Put(EmptyStore, PathB \o Slash \o ColYear \o <<"=">> \o NatToStr(2023)
                             \o Slash \o <<"d", "a", "t", "a">> \o DotTxt,
             NotParquet),
         PathC \o Slash \o ChunkPrefix \o Format05d(0) \o DotTxt, NotParquet)}

InitBoth ==
    /\ store \in BothSeeds
    /\ InitCalls

BothBeginWritePartitioned ==
    \E df \in BothFrames, partition_cols \in PartitionColumnLists,
       overwrite \in BOOLEAN :
        CallWritePartitioned("a", df, PathB, partition_cols, overwrite)

\* The one writing call of a behaviour may be a chunked write.
BothBeginWriteChunked == calls = 0 /\ BeginWriteChunked

NextBoth ==
    \/ BothBeginWritePartitioned
    \/ PartitionedWrite("a")
    \/ BothBeginWriteChunked
    \/ ChunkedWrite("a")
    \/ UploadFault("a")
    \/ BeginReadPartitioned
    \/ ReadPartitionedList("a")
    \/ ReadPartitionedLoop("a")
    \/ BeginReadChunked
    \/ ReadChunkedList("a")
    \/ ReadChunkedLoop("a")
    \/ Return("a")

SpecBoth == InitBoth /\ [][NextBoth]_vars

-----------------------------------------------------------------------------
(***************************************************************************)
(* SpecSeg: one partitioned write, and partitioned reads, with a base path *)
(* that is plain or is itself a "key=value" segment, in a container that   *)
(* may hold blobs whose tables have the columns their paths name.          *)
(***************************************************************************)
MaxSegRows == 2

SegFrames == FramesOver({Row2023, Row202}, MaxSegRows)

\* The base path "v=9".
SegBase == ColV \o <<"=">> \o NatToStr(9)

SegBases == {PathB, SegBase}

\* The container empty; or holding, under "v=9", a partition whose table has
\* kept the year column; or holding, under "b", a blob whose file name is
\* itself "v=1.parquet".
SegSeeds ==
    {EmptyStore,
     Put(EmptyStore, PartitionBlobName(SegBase, <<ColYear>>, <<IntV(2023)>>),
         Encode(SeedFrame)),
     Put(EmptyStore, PathB \o Slash \o ColYear \o <<"=">> \o NatToStr(2023)
                         \o Slash \o ColV \o <<"=">> \o NatToStr(1) \o DotParquet,
         Encode(SeedFrame))}

InitSeg ==
    /\ store \in SegSeeds
    /\ InitCalls

SegBeginWritePartitioned ==
    \E df \in SegFrames, base_blob_path \in SegBases,
       partition_cols \in {<<ColYear>>, <<ColYear, ColMonth>>},
       overwrite \in BOOLEAN :
        CallWritePartitioned("a", df, base_blob_path, partition_cols, overwrite)

SegBeginReadPartitioned ==
    \E base_blob_path \in SegBases, partition_filter \in PartitionFilters :
        CallReadPartitioned("a", base_blob_path, partition_filter)

NextSeg ==
    \/ SegBeginWritePartitioned
    \/ PartitionedWrite("a")
    \/ SegBeginReadPartitioned
    \/ ReadPartitionedList("a")
    \/ ReadPartitionedLoop("a")
    \/ Return("a")

SpecSeg == InitSeg /\ [][NextSeg]_vars

-----------------------------------------------------------------------------
(***************************************************************************)
(* SpecSibling: one partitioned or chunked write, and partitioned and      *)
(* chunked reads, of the data sets "b" and "c" in a container that also    *)
(* holds the data sets "b2" and "c2".                                      *)
(***************************************************************************)
PathB2 == PathB \o NatToStr(2)

PathC2 == PathC \o NatToStr(2)

\* The sibling data sets alone, or next to a partition of "b" and a chunk of
\* "c".
SiblingSeeds ==
    LET siblings ==
            Put(Put(EmptyStore,
                    PartitionBlobName(PathB2, <<ColYear>>, <<IntV(2023)>>),
                    Encode(DropColumns(DataFrame(Columns3, <<Row2023>>), <<ColYear>>))),
                ChunkBlobName(PathC2, 0), Encode(DataFrame(Columns3, <<Row2023>>)))
    IN  {siblings,
         Put(Put(siblings, PartitionBlobName(PathB, <<ColYear>>, <<IntV(202)>>),
                 Encode(DropColumns(SeedFrame, <<ColYear>>))),
             ChunkBlobName(PathC, 0), Encode(SeedFrame))}

InitSibling ==
    /\ store \in SiblingSeeds
    /\ InitCalls

NextSibling ==
    \/ BothBeginWritePartitioned
    \/ PartitionedWrite("a")
    \/ BothBeginWriteChunked
    \/ ChunkedWrite("a")
    \/ BeginReadPartitioned
    \/ ReadPartitionedList("a")
    \/ ReadPartitionedLoop("a")
    \/ BeginReadChunked
    \/ ReadChunkedList("a")
    \/ ReadChunkedLoop("a")
    \/ Return("a")

SpecSibling == InitSibling /\ [][NextSibling]_vars

-----------------------------------------------------------------------------
(***************************************************************************)
(* SpecRead: the read-side methods of the writer, next to write_parquet    *)
(* and delete_blob, over a service that may fail a download, a listing or  *)
(* an existence test.                                                      *)
(***************************************************************************)
\* The container empty; or holding a flat blob, a partition and a chunk; or
\* holding a flat blob that is no parquet file and a table of no rows.
ReadSeeds ==
    {EmptyStore,
     Put(Put(Put(EmptyStore, PathXParquet, Encode(SeedFrame)),
             PartitionBlobName(PathB, <<ColYear>>, <<IntV(2023)>>),
             Encode(DropColumns(SeedFrame, <<ColYear>>))),
         ChunkBlobName(PathC, 0), Encode(SeedFrame)),
     Put(Put(EmptyStore, PathXParquet, NotParquet),
         PathX, Encode(DataFrame(Columns3, <<>>)))}

InitRead ==
    /\ store \in ReadSeeds
    /\ InitCalls

ReadBeginWrite ==
    \E df \in IndepFrames, blob_name \in FlatPaths, overwrite \in BOOLEAN :
        CallWriteParquet("a", df, blob_name, "snappy", overwrite, FALSE)

BeginGetBlobUrl == \E blob_name \in FlatPaths : CallGetBlobUrl("a", blob_name)

BeginGetParquetInfo == \E blob_name \in FlatPaths : CallGetParquetInfo("a", blob_name)

ReadBeginListBlobs == \E prefix \in {<<>>, PathX, PathB} : CallListBlobs("a", prefix)

NextRead ==
    \/ ReadBeginWrite
    \/ WriteParquetUpload("a")
    \/ BeginDeleteBlob
    \/ DeleteBlobAnswer("a")
    \/ BeginReadParquet
    \/ ReadParquetDownload("a")
    \/ BeginReadPartitioned
    \/ ReadPartitionedList("a")
    \/ ReadPartitionedLoop("a")
    \/ BeginReadChunked
    \/ ReadChunkedList("a")
    \/ ReadChunkedLoop("a")
    \/ BeginGetParquetInfo
    \/ GetParquetInfoDownload("a")
    \/ ReadBeginListBlobs
    \/ ListBlobsAnswer("a")
    \/ BeginBlobExists
    \/ BlobExistsAnswer("a")
    \/ BeginGetBlobUrl
    \/ DownloadFault("a")
    \/ ListFault("a")
    \/ ExistsFault("a")
    \/ Return("a")

SpecRead == InitRead /\ [][NextRead]_vars

-----------------------------------------------------------------------------
(***************************************************************************)
(* pull_from_db and upsert_to_azure_postgresql (utils/azure_postgresql.py). *)
(* A call is cut into the statements of its try block; each statement that *)
(* reaches the server either succeeds or raises.  tx holds the statements   *)
(* executed and not committed on the connection of the call; committed      *)
(* holds the transactions the server has committed.                         *)
(***************************************************************************)
MaxDbCalls == 2

\* The try block with the commit right after the two CREATE TABLE statements.
UpsertStepsCommitEarly ==
    <<"connect", "cursor", "create_temp", "create_target", "commit", "to_csv",
      "copy", "upsert", "drop_temp", "close_cursor", "close_connection">>

\* The statements of the try block of upsert_to_azure_postgresql, in order.
UpsertSteps ==
    <<"connect", "cursor", "create_temp", "create_target", "to_csv", "copy",
      "upsert", "drop_temp", "commit", "close_cursor", "close_connection">>

\* The statements of the try block of pull_from_db, in order.
PullSteps == <<"connect", "read_sql", "close_connection">>

StepsOf(op) == IF op = "pull_from_db" THEN PullSteps ELSE UpsertSteps

\* The statements that change the tables inside the transaction.
SqlSteps == {"create_temp", "create_target", "copy", "upsert", "drop_temp"}

\* The statements psycopg2 or pandas can raise from.
FailingSteps == SqlSteps \cup {"connect", "read_sql", "to_csv", "commit"}

CallPullFromDb ==
    /\ pg.op = "idle"
    /\ pg.begun < MaxDbCalls
    /\ pg' = [pg EXCEPT !.op = "pull_from_db", !.pc = 1, !.begun = @ + 1,
                        !.base = Len(pg.committed), !.commits = 0, !.logged = 0,
                        !.raised = FALSE, !.failed = "none"]
    /\ UNCHANGED <<store, call, calls, uploads, last_write, lg>>

\* upsert_to_azure_postgresql up to its try: fillna, infer_sql_data_types and
\* the three query strings.
CallUpsert ==
    /\ pg.op = "idle"
    /\ pg.begun < MaxDbCalls
    /\ pg' = [pg EXCEPT !.op = "upsert_to_azure_postgresql", !.pc = 0,
                        !.begun = @ + 1,
                        !.base = Len(pg.committed), !.commits = 0, !.logged = 0,
                        !.raised = FALSE, !.failed = "none"]
    /\ UNCHANGED <<store, call, calls, uploads, last_write, lg>>

\* The statements before the try succeed, or infer_sql_data_types raises
\* (NotImplementedError for a dtype it does not know) to the caller.
UpsertPrepare ==
    /\ pg.op = "upsert_to_azure_postgresql"
    /\ pg.pc = 0
    /\ \E ok \in BOOLEAN :
           pg' = IF ok THEN [pg EXCEPT !.pc = 1]
                 ELSE [pg EXCEPT !.pc = Len(UpsertSteps) + 1, !.raised = TRUE,
                                 !.failed = "prepare"]
    /\ UNCHANGED <<store, call, calls, uploads, last_write, lg>>

\* What a statement that succeeds does to the session.
StepEffect(p, step) ==
    IF step = "connect" THEN [p EXCEPT !.open = @ + 1, !.tx = <<>>]
    ELSE IF step = "cursor" THEN [p EXCEPT !.cursors = @ + 1]
    ELSE IF step \in SqlSteps THEN [p EXCEPT !.tx = Append(@, step)]
    ELSE IF step = "commit"
         THEN [p EXCEPT !.committed = Append(@, p.tx), !.tx = <<>>,
                        !.commits = @ + 1]
    ELSE IF step = "close_cursor" THEN [p EXCEPT !.cursors = @ - 1]
    ELSE IF step = "close_connection" THEN [p EXCEPT !.open = @ - 1, !.tx = <<>>]
    ELSE p

\* The next statement of the try block succeeds.
DbStep ==
    /\ pg.op \in {"pull_from_db", "upsert_to_azure_postgresql"}
    /\ pg.pc \in 1..Len(StepsOf(pg.op))
    /\ pg' = [StepEffect(pg, StepsOf(pg.op)[pg.pc]) EXCEPT !.pc = pg.pc + 1]
    /\ UNCHANGED <<store, call, calls, uploads, last_write, lg>>

\* The next statement raises: "except Exception as e" logs the error
\* (logging.info in pull_from_db, logging.error in the upsert) and the
\* function returns None.  The rest of the try block, the close calls
\* included, is skipped; what the connection had not committed is never
\* committed.
DbFail ==
    /\ pg.op \in {"pull_from_db", "upsert_to_azure_postgresql"}
    /\ pg.pc \in 1..Len(StepsOf(pg.op))
    /\ StepsOf(pg.op)[pg.pc] \in FailingSteps
    /\ pg' = [pg EXCEPT !.pc = Len(StepsOf(pg.op)) + 1,
                        !.failed = StepsOf(pg.op)[pg.pc],
                        !.logged = @ + 1, !.tx = <<>>]
    /\ UNCHANGED <<store, call, calls, uploads, last_write, lg>>

DbDone == pg.op # "idle" /\ pg.pc = Len(StepsOf(pg.op)) + 1

\* The function returns to its caller.
DbReturn ==
    /\ DbDone
    /\ pg' = [pg EXCEPT !.op = "idle", !.pc = 0]
    /\ UNCHANGED <<store, call, calls, uploads, last_write, lg>>

(***************************************************************************)
(* SpecDb: pull_from_db and upsert_to_azure_postgresql calls, one at a     *)
(* time, against a server that may fail any statement.                     *)
(***************************************************************************)
InitDb ==
    /\ store = EmptyStore
    /\ InitCalls

NextDb ==
    \/ CallPullFromDb
    \/ CallUpsert
    \/ UpsertPrepare
    \/ DbStep
    \/ DbFail
    \/ DbReturn

SpecDb == InitDb /\ [][NextDb]_vars

-----------------------------------------------------------------------------
(***************************************************************************)
(* The pipeline logger (utils/logging_utils.py).  A handler is the pair of *)
(* the PipelineLogger that made it and its kind; lg.handlers are the       *)
(* handler lists of the loggers, lg.open the handlers not closed, lg.files *)
(* the log files that exist, each with the levels of the records written   *)
(* to it.  Of a PipelineLogger, wrote_error, closed and deleted are        *)
(* history: a record of level ERROR or higher went through its file        *)
(* handler, close() ran, close() removed the file.                         *)
(***************************************************************************)
MaxInstances == 2
MaxRecords == 2

FileHandler(id) == <<id, "file">>

StreamHandler(id) == <<id, "console">>

\* log_dir / f"{name}_{current_datetime}.log", the minute being the same.
LogFilePath(name) == <<name, "mon_jan_01_0000">>

\* logger.getEffectiveLevel(): the logger's own level, or the root's when it
\* has none.
EffectiveLevel(l, n) == IF l.level[n] # 0 THEN l.level[n] ELSE l.level["root"]

\* The handlers a record logged to logger n is handed to: the logger's own
\* and, when it propagates, the root's.
CallHandlers(l, n) ==
    l.handlers[n] \cup (IF n # "root" /\ l.propagate[n] THEN l.handlers["root"] ELSE {})

\* The file handlers among hs that take a record of this level (their own
\* level is INFO).
FileHandlersTaking(hs, levelno) == {h \in hs : h[2] = "file" /\ levelno >= INFO}

\* The file handlers write the record to their files.
RECURSIVE Emit(_, _, _)
Emit(l, hs, levelno) ==
    IF hs = {} THEN l
    ELSE LET h == CHOOSE x \in hs : TRUE
             path == l.inst[h[1]].path
             written == [l EXCEPT
                 !.files = [f \in DOMAIN l.files \cup {path} |->
                               IF f = path
                               THEN (IF path \in DOMAIN l.files THEN l.files[path]
                                     ELSE <<>>) \o <<levelno>>
                               ELSE l.files[f]],
                 !.open = @ \cup {h},
                 !.inst[h[1]].wrote_error = @ \/ levelno >= ERROR]
         IN  Emit(written, hs \ {h}, levelno)

\* logging.getLogger(n).log(levelno, msg)
LogTo(l, n, levelno) ==
    IF levelno < EffectiveLevel(l, n) THEN l
    ELSE Emit(l, FileHandlersTaking(CallHandlers(l, n), levelno), levelno)

\* close() leaving its handlers on the root logger.
CloseKeepsRootHandlers(l, id) ==
    LET me == l.inst[id]
        fh == IF me.file_handler THEN {FileHandler(id)} ELSE {}
        ch == IF me.console_handler THEN {StreamHandler(id)} ELSE {}
        remove == /\ me.delete_if_no_errors
                  /\ me.file_handler
                  /\ me.path \in DOMAIN l.files
                  /\ ~me.has_errors
    IN  [l EXCEPT
            !.handlers = [n \in Loggers |->
                             IF n = me.name THEN l.handlers[n] \ (fh \cup ch)
                             ELSE l.handlers[n]],
            !.open = @ \ (fh \cup ch),
            !.files = IF remove
                      THEN [f \in DOMAIN l.files \ {me.path} |-> l.files[f]]
                      ELSE @,
            !.inst[id].closed = TRUE,
            !.inst[id].deleted = @ \/ remove]

\* PipelineLogger.close(): the handlers are taken off the root logger when
\* capture_root is set, closed and taken off the named logger; the log file
\* is removed when delete_if_no_errors is set, the file exists and
\* _has_errors is not set.
Close(l, id) ==
    LET me == l.inst[id]
        fh == IF me.file_handler THEN {FileHandler(id)} ELSE {}
        ch == IF me.console_handler THEN {StreamHandler(id)} ELSE {}
        remove == /\ me.delete_if_no_errors
                  /\ me.file_handler
                  /\ me.path \in DOMAIN l.files
                  /\ ~me.has_errors
    IN  [l EXCEPT
            !.handlers = [n \in Loggers |->
                             IF n = me.name \/ (n = "root" /\ me.capture_root)
                             THEN l.handlers[n] \ (fh \cup ch)
                             ELSE l.handlers[n]],
            !.open = @ \ (fh \cup ch),
            !.files = IF remove
                      THEN [f \in DOMAIN l.files \ {me.path} |-> l.files[f]]
                      ELSE @,
            !.inst[id].closed = TRUE,
            !.inst[id].deleted = @ \/ remove]

\* PipelineLogger.__init__ up to _setup_logging: the named logger gets the
\* level, an empty handler list and propagate = False.
ResetLogger(l, name, level) ==
    [l EXCEPT !.level[name] = level, !.handlers[name] = {},
              !.propagate[name] = FALSE]

\* PipelineLogger(...) as init_logging calls it (log_to_console is left at
\* True), with _setup_logging: the file handler, when log_to_file is set, and
\* the console handler go on the named logger; with capture_root the root
\* logger gets the level and these handlers in place of the ones it had.
NewPipelineLogger(l, name, level, log_to_file, delete_if_no_errors, capture_root) ==
    LET id == l.made + 1
        path == LogFilePath(name)
        mine == (IF log_to_file THEN {FileHandler(id)} ELSE {}) \cup {StreamHandler(id)}
        reset == ResetLogger(l, name, level)
        me == [name |-> name, capture_root |-> capture_root,
               delete_if_no_errors |-> delete_if_no_errors,
               file_handler |-> log_to_file, console_handler |-> TRUE,
               path |-> path, has_errors |-> FALSE,
               wrote_error |-> FALSE, closed |-> FALSE, deleted |-> FALSE]
    IN  [reset EXCEPT
            !.made = id,
            !.inst = Append(@, me),
            !.instance = id,
            !.files = IF log_to_file /\ path \notin DOMAIN reset.files
                      THEN [f \in DOMAIN reset.files \cup {path} |->
                               IF f = path THEN <<>> ELSE reset.files[f]]
                      ELSE @,
            !.open = @ \cup mine,
            !.handlers = [n \in Loggers |->
                             IF n = name THEN mine
                             ELSE IF n = "root" /\ capture_root THEN mine
                             ELSE reset.handlers[n]],
            !.level = IF capture_root THEN [@ EXCEPT !["root"] = level] ELSE @]

\* _logger_instance.close() when there is an instance.
CloseInstance(l) == IF l.instance # 0 THEN Close(l, l.instance) ELSE l

\* init_logging: the instance there is is closed, and a new PipelineLogger
\* becomes the global instance.
InitLogging ==
    /\ lg.made < MaxInstances
    /\ \E name \in LoggerNames, level \in {DEBUG, CRITICAL}, log_to_file \in BOOLEAN,
          delete_if_no_errors \in BOOLEAN, capture_root \in BOOLEAN :
           lg' = [NewPipelineLogger(CloseInstance(lg), name, level, log_to_file,
                                    delete_if_no_errors, capture_root)
                      EXCEPT !.got = "none"]
    /\ UNCHANGED <<store, call, calls, uploads, last_write, pg>>

\* init_logging when the log directory or the log file cannot be made:
\* PipelineLogger raises out of _setup_logging before any handler is there,
\* and _logger_instance stays the instance that was closed.
InitLoggingFails ==
    /\ lg.made < MaxInstances
    /\ \E name \in LoggerNames, level \in {DEBUG, CRITICAL} :
           lg' = [ResetLogger(CloseInstance(lg), name, level) EXCEPT !.got = "none"]
    /\ UNCHANGED <<store, call, calls, uploads, last_write, pg>>

\* close_logging with an instance there.
CloseLogging ==
    /\ lg.instance # 0
    /\ lg' = [Close(lg, lg.instance) EXCEPT !.instance = 0, !.got = "none"]
    /\ UNCHANGED <<store, call, calls, uploads, last_write, pg>>

\* get_logger(): the name of the logger it returns.
GetLogger ==
    /\ lg.got = "none"
    /\ lg' = [lg EXCEPT !.got = IF lg.instance # 0 THEN lg.inst[lg.instance].name
                                ELSE "root"]
    /\ UNCHANGED <<store, call, calls, uploads, last_write, pg>>

\* info() and error() of the global instance: error sets _has_errors.
PipelineLoggerLog ==
    /\ lg.instance # 0
    /\ lg.records < MaxRecords
    /\ \E levelno \in {INFO, ERROR} :
           LET flagged == [lg EXCEPT !.inst[lg.instance].has_errors =
                                         @ \/ levelno = ERROR]
           IN  lg' = [LogTo(flagged, lg.inst[lg.instance].name, levelno)
                          EXCEPT !.records = @ + 1]
    /\ UNCHANGED <<store, call, calls, uploads, last_write, pg>>

\* A record logged to a named logger: get_logger().error(...),
\* logging.getLogger(name).info(...).
NamedLoggerLog ==
    /\ lg.records < MaxRecords
    /\ \E n \in LoggerNames, levelno \in {INFO, ERROR} :
           lg' = [LogTo(lg, n, levelno) EXCEPT !.records = @ + 1]
    /\ UNCHANGED <<store, call, calls, uploads, last_write, pg>>

\* A record logged to the root logger: logging.error(...), logging.info(...).
RootLoggerLog ==
    /\ lg.records < MaxRecords
    /\ \E levelno \in {INFO, ERROR} :
           lg' = [LogTo(lg, "root", levelno) EXCEPT !.records = @ + 1]
    /\ UNCHANGED <<store, call, calls, uploads, last_write, pg>>

(***************************************************************************)
(* SpecLog: init_logging and close_logging calls, and records logged       *)
(* through the instance, the named loggers and the root logger.            *)
(***************************************************************************)
InitLog ==
    /\ store = EmptyStore
    /\ InitCalls

NextLog ==
    \/ InitLogging
    \/ InitLoggingFails
    \/ CloseLogging
    \/ PipelineLoggerLog
    \/ NamedLoggerLog
    \/ RootLoggerLog

SpecLog == InitLog /\ [][NextLog]_vars

(***************************************************************************)
(* SpecGlobal: sequences of init_logging, close_logging and get_logger     *)
(* calls.                                                                  *)
(***************************************************************************)
NextGlobal ==
    \/ InitLogging
    \/ InitLoggingFails
    \/ CloseLogging
    \/ GetLogger

SpecGlobal == InitLog /\ [][NextGlobal]_vars

-----------------------------------------------------------------------------
(***************************************************************************)
(* The claims.                                                             *)
(***************************************************************************)
Done(c, op) == call[c].op = op /\ call[c].pc = "done"

Blob(s, blob_name) == Decode(s[blob_name])

\* Callers a and b both appended to one path, each looked at the store
\* before the other's upload landed, and b's upload landed last.
AppendRace(a, b) ==
    /\ a # b
    /\ Done(a, "append_parquet")
    /\ Done(b, "append_parquet")
    /\ call[a].blob_name = call[b].blob_name
    /\ call[a].read_at < call[b].wrote_at
    /\ call[b].read_at < call[a].wrote_at
    /\ call[a].wrote_at < call[b].wrote_at
    /\ call[a].exists = call[b].exists
    /\ call[a].existing_df = call[b].existing_df

\* C1: when two appends to one path both read the same existing blob (or both
\* found none) before either wrote, neither call reports an error and the
\* final blob holds the rows they read followed by the rows of the later
\* writer only: the earlier writer's rows are overwritten.
C1_LostUpdate ==
    \A a \in Callers, b \in Callers :
        AppendRace(a, b) =>
            /\ call[a].err = "none"
            /\ call[b].err = "none"
            /\ Blob(store, NormalizeBlobName(call[b].blob_name)).rows
                   = call[b].existing_df.rows \o call[b].df.rows

\* C1 witness: both appenders read an existing blob and appended rows, and the
\* blob ends shorter than the three parts together.
C1_Witness ==
    \E a \in Callers, b \in Callers :
        /\ AppendRace(a, b)
        /\ call[a].exists
        /\ call[a].existing_df.rows # <<>>
        /\ call[a].df.rows # <<>>
        /\ call[b].df.rows # <<>>
        /\ call[a].err = "none"
        /\ call[b].err = "none"
        /\ Len(Blob(store, NormalizeBlobName(call[b].blob_name)).rows)
               = Len(call[b].existing_df.rows) + Len(call[b].df.rows)

\* C2: an append to a path whose blob exists (the blob a write through the
\* adapter with the same path made, that is the one at the normalized name)
\* leaves the existing rows followed by the new rows.
C2_AppendKeepsExisting ==
    \A c \in Callers :
        ( /\ Done(c, "append_parquet")
          /\ BlobExists(call[c].pre, NormalizeBlobName(call[c].blob_name)) )
        => /\ call[c].err = "none"
           /\ Blob(store, NormalizeBlobName(call[c].blob_name)).rows
                  = Blob(call[c].pre, NormalizeBlobName(call[c].blob_name)).rows
                        \o call[c].df.rows

\* C3: an append to a path at which no blob exists leaves the store, and
\* returns, what write_parquet(df, path, overwrite=True) would from the same
\* store: one blob at the normalized path that holds exactly the new rows.
C3_AppendToNothingIsWrite ==
    \A c \in Callers :
        ( /\ Done(c, "append_parquet")
          /\ ~BlobExists(call[c].pre, call[c].blob_name) )
        => \A now \in Timestamps :
             LET w == WriteParquet(call[c].pre, call[c].df, call[c].blob_name,
                                   TRUE, FALSE, now)
                 name == NormalizeBlobName(call[c].blob_name)
             IN  /\ store = w.store
                 /\ call[c].url = w.url
                 /\ call[c].err = w.err
                 /\ call[c].err = "none"
                 /\ store = Put(call[c].pre, name, Encode(call[c].df))
                 /\ Blob(store, name).rows = call[c].df.rows

C3_Witness ==
    \E c \in Callers :
        /\ Done(c, "append_parquet")
        /\ ~BlobExists(call[c].pre, call[c].blob_name)
        /\ call[c].pre = EmptyStore
        /\ call[c].df.rows # <<>>
        /\ DOMAIN store = {NormalizeBlobName(call[c].blob_name)}

\* C8: read_parquet(p) after write_parquet(T, p) returns T: the same columns
\* in order and the same rows in order, for p with or without ".parquet".
C8_RoundTrip ==
    \A c \in Callers :
        ( /\ Done(c, "read_parquet")
          /\ last_write.valid
          /\ last_write.op = "write_parquet"
          /\ last_write.blob_name = call[c].blob_name )
        => /\ call[c].err = "none"
           /\ call[c].out_df.columns = last_write.df.columns
           /\ call[c].out_df.rows = last_write.df.rows

\* C10: write_parquet of "x" and of "x.parquet" upload to the one blob
\* "x.parquet", and no uploaded name carries the extension twice.
C10_ExtensionOnce ==
    \A c \in Callers :
        (Done(c, "write_parquet") /\ call[c].err = "none")
        => \E name \in DOMAIN store :
             /\ call[c].url = GetBlobUrl(name)
             /\ store[name] = Encode(call[c].df)
             /\ DOMAIN store = DOMAIN call[c].pre \cup {name}
             /\ EndsWith(name, DotParquet)
             /\ ~EndsWith(name, DotParquet \o DotParquet)
             /\ ~call[c].include_timestamp => name = PathXParquet

\* C10 witness: a write of "x" has replaced the blob an earlier write left at
\* "x.parquet", and the container holds that one blob.
C10_Witness ==
    \E c \in Callers :
        /\ Done(c, "write_parquet")
        /\ call[c].err = "none"
        /\ call[c].blob_name = PathX
        /\ BlobExists(call[c].pre, PathXParquet)
        /\ call[c].pre[PathXParquet] # Encode(SeedFrame)
        /\ call[c].pre[PathXParquet] # Encode(call[c].df)
        /\ DOMAIN store = {PathXParquet}
        /\ store[PathXParquet] = Encode(call[c].df)

\* C4: write_parquet_partitioned given a partition column that is no column
\* of the frame, at whatever position of the list, raises its ValueError, and
\* the store is as it was: the call never reaches its loop of uploads.
C4_MissingColumnNoWrites ==
    \A c \in Callers :
        ( /\ call[c].op = "write_parquet_partitioned"
          /\ \E k \in 1..Len(call[c].partition_cols) :
                 ~InColumns(call[c].partition_cols[k], call[c].df) )
        => /\ call[c].pc = "done"
           /\ call[c].err = "ValueError"
           /\ call[c].urls = <<>>
           /\ store = call[c].pre
           /\ call[c].wrote_at = 0

\* C4 witness: the missing name is the second of the list, after a name that
\* is a column, and the frame has rows to write.
C4_Witness ==
    \E c \in Callers :
        /\ Done(c, "write_parquet_partitioned")
        /\ call[c].partition_cols = <<ColYear, ColMissing>>
        /\ call[c].df.rows # <<>>
        /\ call[c].err = "ValueError"
        /\ store = call[c].pre

\* The blobs a finished partitioned or chunked write uploaded, by its urls.
Written(c) ==
    {name \in DOMAIN store : \E u \in 1..Len(call[c].urls) :
                                call[c].urls[u] = GetBlobUrl(name)}

RECURSIVE SumRows(_, _)
SumRows(s, names) ==
    IF names = {} THEN 0
    ELSE LET name == CHOOSE x \in names : TRUE
         IN  Len(s[name].rows) + SumRows(s, names \ {name})

\* C5: after a partitioned write every row of the frame is in one partition
\* blob and in one only: each row (less its partition columns) is a row of a
\* written blob, and the written blobs hold as many rows as the frame.
C5_EveryRowInOnePartition ==
    \A c \in Callers :
        (Done(c, "write_parquet_partitioned") /\ call[c].err = "none")
        => /\ \A r \in 1..Len(call[c].df.rows) :
                \E name \in Written(c) :
                    \E q \in 1..Len(store[name].rows) :
                        store[name].rows[q]
                            = DropColumns(call[c].df, call[c].partition_cols).rows[r]
           /\ SumRows(store, Written(c)) = Len(call[c].df.rows)

\* A row as a mapping from its column names to its cells.
RowMap(df, r) ==
    [col \in {df.columns[j] : j \in 1..Len(df.columns)} |-> Cell(df, r, col)]

\* Row r of df with its partition columns as the strings a path holds.
RestoredRow(df, r, partition_cols) ==
    [col \in {df.columns[j] : j \in 1..Len(df.columns)} |->
        IF \E k \in 1..Len(partition_cols) : partition_cols[k] = col
        THEN StrV(StrOf(Cell(df, r, col)))
        ELSE Cell(df, r, col)]

\* C9: read_parquet_partitioned(base) without a filter, after a partitioned
\* write of a frame with rows to a base under which the store held nothing,
\* returns the frame's rows as a multiset, each partition column holding the
\* string of its value.
C9_PartitionRoundTrip ==
    \A c \in Callers :
        ( /\ Done(c, "read_parquet_partitioned")
          /\ call[c].partition_filter = <<>>
          /\ last_write.valid
          /\ last_write.op = "write_parquet_partitioned"
          /\ last_write.df.rows # <<>>
          /\ RStrip(last_write.blob_name, "/") = RStrip(call[c].blob_name, "/")
          /\ ListBlobs(last_write.pre, RStrip(last_write.blob_name, "/")) = {} )
        => /\ call[c].err = "none"
           /\ Len(call[c].out_df.rows) = Len(last_write.df.rows)
           /\ \E m \in Orderings(1..Len(last_write.df.rows)) :
                \A r \in 1..Len(last_write.df.rows) :
                    RowMap(call[c].out_df, m[r])
                        = RestoredRow(last_write.df, r, last_write.partition_cols)

\* The least m with m * k >= n, for k > 0: the ceiling of n / k.
CeilDiv(n, k) == CHOOSE m \in 0..n : m * k >= n /\ (m = 0 \/ (m - 1) * k < n)

RECURSIVE ChunkRowsUpTo(_, _, _)
ChunkRowsUpTo(s, base_blob_path, count) ==
    IF count = 0 THEN <<>>
    ELSE ChunkRowsUpTo(s, base_blob_path, count - 1)
             \o s[ChunkBlobName(base_blob_path, count - 1)].rows

\* C6: write_parquet_chunked of n rows with chunk_size k > 0 writes ceil(n/k)
\* blobs, chunk i holding rows i*k up to min((i+1)*k, n), and the chunks put
\* together in ascending index order are the frame's rows in their order.
C6_ChunksCoverInOrder ==
    \A c \in Callers :
        ( /\ Done(c, "write_parquet_chunked")
          /\ call[c].chunk_size > 0
          /\ call[c].err = "none" )
        => LET n == Len(call[c].df.rows)
               k == call[c].chunk_size
               count == CeilDiv(n, k)
               name(i) == ChunkBlobName(call[c].blob_name, i)
           IN  /\ Len(call[c].urls) = count
               /\ \A i \in 0..(count - 1) :
                    /\ call[c].urls[i + 1] = GetBlobUrl(name(i))
                    /\ BlobExists(store, name(i))
                    /\ store[name(i)].rows
                           = SubSeq(call[c].df.rows, i * k + 1, Min((i + 1) * k, n))
               /\ DOMAIN store = DOMAIN call[c].pre \cup {name(i) : i \in 0..(count - 1)}
               /\ ChunkRowsUpTo(store, call[c].blob_name, count) = call[c].df.rows

\* C6 witness: three rows in chunks of two: a full chunk and the remainder.
C6_Witness ==
    \E c \in Callers :
        /\ Done(c, "write_parquet_chunked")
        /\ call[c].err = "none"
        /\ Len(call[c].df.rows) = 3
        /\ call[c].chunk_size = 2
        /\ Len(call[c].urls) = 2
        /\ Len(store[ChunkBlobName(call[c].blob_name, 0)].rows) = 2
        /\ Len(store[ChunkBlobName(call[c].blob_name, 1)].rows) = 1

\* C7: write_parquet_chunked with a chunk_size of zero or less fails before
\* any upload: it is never in its loop, and it ends with an error and the
\* store as it was.
C7_NonPositiveChunkSizeFails ==
    \A c \in Callers :
        (call[c].op = "write_parquet_chunked" /\ call[c].chunk_size <= 0)
        => /\ call[c].pc = "done"
           /\ call[c].err # "none"
           /\ store = call[c].pre

\* The blobs a partitioned or chunked write uploads, turn by turn: the name
\* and the payload of turn j (from 1) of call c.
Turns(c) ==
    IF call[c].op = "write_parquet_partitioned" THEN Len(call[c].grouped)
    ELSE Max(call[c].num_chunks, 0)

TurnName(c, j) ==
    IF call[c].op = "write_parquet_partitioned"
    THEN PartitionBlobName(call[c].blob_name, call[c].partition_cols,
                           call[c].grouped[j].key)
    ELSE ChunkBlobName(call[c].blob_name, j - 1)

TurnData(c, j) ==
    IF call[c].op = "write_parquet_partitioned"
    THEN Encode(DropColumns(call[c].grouped[j].df, call[c].partition_cols))
    ELSE Encode(ChunkDf(call[c].df, j - 1, call[c].chunk_size))

\* The blob of that name is as it was when call c began: absent, or the same.
Untouched(c, name) ==
    IF BlobExists(call[c].pre, name)
    THEN BlobExists(store, name) /\ store[name] = call[c].pre[name]
    ELSE ~BlobExists(store, name)

\* C11: when an upload of a partitioned or chunked write fails, the method
\* ends there with the error: the blobs of the turns before it are in the
\* store with their payloads, the blob of the failed turn and those of the
\* turns after it are as they were before the call, and nothing else changed.
C11_PartialFailureKeepsWritten ==
    \A c \in Callers :
        ( /\ call[c].op \in {"write_parquet_partitioned", "write_parquet_chunked"}
          /\ call[c].failed = "upload" )
        => /\ call[c].pc = "done"
           /\ call[c].err # "none"
           /\ Len(call[c].urls) < Turns(c)
           /\ \A j \in 1..Len(call[c].urls) :
                /\ BlobExists(store, TurnName(c, j))
                /\ store[TurnName(c, j)] = TurnData(c, j)
           /\ \A j \in (Len(call[c].urls) + 1)..Turns(c) :
                Untouched(c, TurnName(c, j))
           /\ \A name \in DOMAIN store \cup DOMAIN call[c].pre :
                (\A j \in 1..Len(call[c].urls) : name # TurnName(c, j))
                    => Untouched(c, name)

\* C11 witness: a chunked write of three chunks whose second upload failed:
\* the first chunk is in the store, the third was never written.
C11_Witness ==
    \E c \in Callers :
        /\ Done(c, "write_parquet_chunked")
        /\ call[c].failed = "upload"
        /\ call[c].num_chunks = 3
        /\ Len(call[c].urls) = 1
        /\ ~BlobExists(call[c].pre, ChunkBlobName(call[c].blob_name, 0))
        /\ BlobExists(store, ChunkBlobName(call[c].blob_name, 0))
        /\ ~BlobExists(store, ChunkBlobName(call[c].blob_name, 2))

ColumnSet(columns) == {columns[j] : j \in 1..Len(columns)}

\* C12: an append to a blob that exists and whose column set is not the
\* column set of the new frame ends with an error and leaves the store as it
\* was: it does not write back a frame with the union of the columns.
C12_AppendSchemaMismatchFails ==
    \A c \in Callers :
        ( /\ Done(c, "append_parquet")
          /\ BlobExists(call[c].pre, call[c].blob_name)
          /\ ColumnSet(call[c].pre[call[c].blob_name].columns)
                 # ColumnSet(call[c].df.columns) )
        => /\ call[c].err # "none"
           /\ store = call[c].pre

\* The name under which the flat write or append of caller c uploads.
Dest(c) ==
    TimestampedName(NormalizeBlobName(call[c].blob_name), call[c].include_timestamp,
                    CHOOSE now \in Timestamps : TRUE)

\* What the blob at Dest(c) holds when the call of c runs alone from the store
\* it began with: a write puts the frame (or, refused, leaves the blob); an
\* append puts the frame after the rows of the blob it finds at its path.
AloneContent(c) ==
    LET pre == call[c].pre
    IN  IF call[c].op = "write_parquet"
        THEN IF ~call[c].overwrite /\ BlobExists(pre, Dest(c))
             THEN pre[Dest(c)]
             ELSE Encode(call[c].df)
        ELSE IF BlobExists(pre, call[c].blob_name)
             THEN Encode(Concat(<<Decode(pre[call[c].blob_name]), call[c].df>>))
             ELSE Encode(call[c].df)

\* C13: two callers write and append at once, one under "x" and one under
\* "y": however their store calls interleave, a finished call leaves at its
\* destination what it leaves there when it runs alone, and it reports the
\* error it reports alone (a refused overwrite, or none).
C13_DifferentPathsIndependent ==
    \A c \in Callers :
        (Done(c, "write_parquet") \/ Done(c, "append_parquet"))
        => /\ BlobExists(store, Dest(c))
           /\ store[Dest(c)] = AloneContent(c)
           /\ call[c].err =
                 IF call[c].op = "write_parquet" /\ ~call[c].overwrite
                        /\ BlobExists(call[c].pre, Dest(c))
                 THEN "ResourceExistsError" ELSE "none"

\* C13 witness: both callers appended rows to blobs that existed, each read
\* its blob before the other's upload and uploaded after it or before it, and
\* both blobs hold their old rows and their caller's new rows.
C13_Witness ==
    /\ Done("a", "append_parquet")
    /\ Done("b", "append_parquet")
    /\ call["a"].exists
    /\ call["b"].exists
    /\ call["a"].df.rows # <<>>
    /\ call["b"].df.rows # <<>>
    /\ call["a"].read_at < call["b"].wrote_at
    /\ call["b"].read_at < call["a"].wrote_at
    /\ Len(Blob(store, PathXParquet).rows) = 2
    /\ Len(Blob(store, PathYParquet).rows) = 2

\* C14: a call of the store that the client could not complete (an upload,
\* a download, a listing, a delete or an existence check that the service
\* failed or refused) ends the caller's method there with an error; the
\* method never goes on, and never returns a value, as if the call had
\* succeeded.
C14_StoreFailurePropagates ==
    \A c \in Callers :
        call[c].failed # "none"
            => /\ call[c].pc = "done"
               /\ call[c].err # "none"

ListedPrefix(c) ==
    IF call[c].op = "read_parquet_partitioned"
    THEN SearchPrefix(call[c].blob_name, call[c].partition_filter)
    ELSE call[c].blob_name

\* C16: a partitioned or chunked read whose listing holds no name that ends
\* with ".parquet" (no name at all, or names of other endings only) ends
\* after the listing with its "No parquet files found" ValueError: it
\* downloads nothing and returns no frame.
C16_NoParquetIsNotFound ==
    \A c \in Callers :
        ( /\ call[c].op \in {"read_parquet_partitioned", "read_parquet_chunked"}
          /\ call[c].pc # "list"
          /\ \A name \in ListBlobs(store, ListedPrefix(c)) :
                 ~EndsWith(name, DotParquet) )
        => /\ call[c].pc = "done"
           /\ call[c].err = "ValueError"
           /\ call[c].blobs = <<>>
           /\ call[c].dfs = <<>>
           /\ call[c].out_df = NoDF

\* C16 witness: a chunked read has failed so on a listing that holds a name,
\* and that name ends with ".txt".
C16_Witness ==
    \E c \in Callers :
        /\ Done(c, "read_parquet_chunked")
        /\ call[c].err = "ValueError"
        /\ ListBlobs(store, ListedPrefix(c)) # {}
        /\ \A name \in ListBlobs(store, ListedPrefix(c)) : EndsWith(name, DotTxt)

\* C17: the temporary directory of a write_parquet call is held only while
\* the call is inside its with block, about to upload; when the call is done
\* (the url returned, to_parquet having raised, or the upload having raised)
\* the directory is gone.
C17_TempDirReleased ==
    \A c \in Callers :
        /\ call[c].temp_dir => call[c].op = "write_parquet" /\ call[c].pc = "upload"
        /\ call[c].op = "write_parquet" /\ call[c].pc = "upload" => call[c].temp_dir
        /\ Done(c, "write_parquet") => ~call[c].temp_dir

\* C17 witness: a call that had written its temporary file is done after the
\* service failed its upload, and it holds no directory.
C17_Witness ==
    \E c \in Callers :
        /\ Done(c, "write_parquet")
        /\ call[c].compression = "snappy"
        /\ call[c].failed = "upload"
        /\ call[c].err = "AzureError"
        /\ store = call[c].pre
        /\ ~call[c].temp_dir

\* The turns of its loop that a partitioned or chunked write has begun.
TurnsBegun(c) ==
    IF call[c].op = "write_parquet_partitioned" THEN call[c].i - 1 ELSE call[c].i

\* C18: at every moment of a partitioned or chunked write the uploads made
\* are those of a first stretch of its turns, in the order of the turns (of
\* the groups; of the chunk indexes, ascending): urls holds the url of turn
\* j at place j, the blobs of these turns are in the store, the blobs of the
\* later turns are not yet written, and a turn begins only when every turn
\* before it has its url; the list returned is in this order and complete.
C18_UploadsInOrder ==
    \A c \in Callers :
        call[c].op \in {"write_parquet_partitioned", "write_parquet_chunked"}
        => /\ Len(call[c].urls) <= Turns(c)
           /\ \A j \in 1..Len(call[c].urls) :
                /\ call[c].urls[j] = GetBlobUrl(TurnName(c, j))
                /\ BlobExists(store, TurnName(c, j))
                /\ store[TurnName(c, j)] = TurnData(c, j)
           /\ \A j \in (Len(call[c].urls) + 1)..Turns(c) :
                Untouched(c, TurnName(c, j))
           /\ call[c].pc = "loop" => Len(call[c].urls) = TurnsBegun(c)
           /\ (call[c].pc = "done" /\ call[c].err = "none")
                  => Len(call[c].urls) = Turns(c)

\* C18 witness: a chunked write has returned three urls, those of chunk 0,
\* chunk 1 and chunk 2 in this order.
C18_Witness ==
    \E c \in Callers :
        /\ Done(c, "write_parquet_chunked")
        /\ call[c].err = "none"
        /\ call[c].urls = <<GetBlobUrl(ChunkBlobName(call[c].blob_name, 0)),
                            GetBlobUrl(ChunkBlobName(call[c].blob_name, 1)),
                            GetBlobUrl(ChunkBlobName(call[c].blob_name, 2))>>

\* int(s) of a string of digits.
RECURSIVE StrToNat(_)
StrToNat(s) ==
    IF s = <<>> THEN 0
    ELSE 10 * StrToNat(SubSeq(s, 1, Len(s) - 1))
             + (CHOOSE d \in 0..9 : Digit(d) = s[Len(s)])

\* The text between base/chunk_ and .parquet of a name.
ChunkDigits(base_blob_path, name) ==
    SubSeq(name, Len(base_blob_path) + Len(Slash) + Len(ChunkPrefix) + 1,
           Len(name) - Len(DotParquet))

\* The name is one that write_parquet_chunked gives a chunk under that base.
IsChunkName(base_blob_path, name) ==
    /\ StartsWith(name, base_blob_path \o Slash \o ChunkPrefix)
    /\ EndsWith(name, DotParquet)
    /\ ChunkDigits(base_blob_path, name) # <<>>
    /\ \A k \in 1..Len(ChunkDigits(base_blob_path, name)) :
           \E d \in 0..9 : Digit(d) = ChunkDigits(base_blob_path, name)[k]
    /\ name = ChunkBlobName(base_blob_path,
                            StrToNat(ChunkDigits(base_blob_path, name)))

ChunkIndexOf(base_blob_path, name) == StrToNat(ChunkDigits(base_blob_path, name))

\* C19: a chunked read takes the listed parquet blobs in the sorted order of
\* their names, in whatever order the store lists them, and when they are
\* chunks that write_parquet_chunked named, this is the ascending order of
\* their chunk indexes.
C19_ChunkedReadInIndexOrder ==
    \A c \in Callers :
        ( /\ call[c].op = "read_parquet_chunked"
          /\ call[c].pc \in {"loop", "done"}
          /\ call[c].failed # "list"
          /\ \A name \in ListBlobs(store, call[c].blob_name) :
                 EndsWith(name, DotParquet) => IsChunkName(call[c].blob_name, name) )
        => /\ Range(call[c].blobs)
                 = {name \in ListBlobs(store, call[c].blob_name) :
                        EndsWith(name, DotParquet)}
           /\ \A p, q \in 1..Len(call[c].blobs) :
                p < q => /\ StrLess(call[c].blobs[p], call[c].blobs[q])
                         /\ ChunkIndexOf(call[c].blob_name, call[c].blobs[p])
                                < ChunkIndexOf(call[c].blob_name, call[c].blobs[q])

\* col1=val1/col2=val2/.../ for row r of df, a segment and a slash for each
\* partition column in the order of the list.
RECURSIVE KeySegments(_, _, _)
KeySegments(df, r, cols) ==
    IF cols = <<>> THEN <<>>
    ELSE cols[1] \o <<"=">> \o StrOf(Cell(df, r, cols[1])) \o <<"/">>
             \o KeySegments(df, r, Tail(cols))

PartitionPathOf(base_blob_path, df, r, cols) ==
    base_blob_path \o <<"/">> \o KeySegments(df, r, cols)
        \o <<"d", "a", "t", "a", ".", "p", "a", "r", "q", "u", "e", "t">>

HasNullKey(df, r, cols) ==
    \E k \in 1..Len(cols) : Cell(df, r, cols[k]).kind = "null"

\* The positions of the columns of df that are no partition column.
DataPositions(df, cols) ==
    {j \in 1..Len(df.columns) : df.columns[j] \notin ColumnSet(cols)}

\* The rows of df in the group of row r, in their order, less the cells of the
\* partition columns.
GroupPayloadRows(df, r, cols) ==
    LET same == {q \in 1..Len(df.rows) :
                    \A k \in 1..Len(cols) : Cell(df, q, cols[k]) = Cell(df, r, cols[k])}
        members == SelectAt(df.rows, same)
    IN  [m \in 1..Len(members) |-> SelectAt(members[m], DataPositions(df, cols))]

\* C20: after a partitioned write every group (the rows that agree with a row
\* r in all partition columns) is the blob at
\* base/col1=val1/.../data.parquet, one col=val segment for each partition
\* column in the order of partition_cols, and the blob holds the columns that
\* are no partition column and the group's rows without the partition cells;
\* one url is returned for each group and no other blob is written.
C20_PartitionPathAndPayload ==
    \A c \in Callers :
        (Done(c, "write_parquet_partitioned") /\ call[c].err = "none")
        => LET df == call[c].df
               cols == call[c].partition_cols
               grouped == {r \in 1..Len(df.rows) : ~HasNullKey(df, r, cols)}
               path(r) == PartitionPathOf(call[c].blob_name, df, r, cols)
           IN  /\ \A r \in grouped :
                    /\ BlobExists(store, path(r))
                    /\ store[path(r)].columns
                           = SelectAt(df.columns, DataPositions(df, cols))
                    /\ store[path(r)].rows = GroupPayloadRows(df, r, cols)
                    /\ \E u \in 1..Len(call[c].urls) :
                           call[c].urls[u] = GetBlobUrl(path(r))
               /\ Len(call[c].urls) = Cardinality({path(r) : r \in grouped})
               /\ DOMAIN store = DOMAIN call[c].pre \cup {path(r) : r \in grouped}

\* C20 witness: a frame written by month and year, in this order, has left
\* b/month=1/year=2023/data.parquet and b/month=1/year=202/data.parquet, each
\* with the one column v.
C20_Witness ==
    \E c \in Callers :
        /\ Done(c, "write_parquet_partitioned")
        /\ call[c].err = "none"
        /\ call[c].partition_cols = <<ColMonth, ColYear>>
        /\ Len(call[c].urls) = 2
        /\ BlobExists(store, PathB \o <<"/">> \o ColMonth \o <<"=", "1", "/">> \o ColYear
                                  \o <<"=", "2", "0", "2", "3", "/">> \o DataParquet)
        /\ BlobExists(store, PathB \o <<"/">> \o ColMonth \o <<"=", "1", "/">> \o ColYear
                                  \o <<"=", "2", "0", "2", "/">> \o DataParquet)
        /\ \A name \in DOMAIN store : store[name].columns = <<ColV>>

\* The value a "key=value" segment of name gives key: the text after the
\* first "=" of the last segment whose text before its first "=" is key.
SegmentsOf(name, key) ==
    LET parts == Split(name, "/")
    IN  {j \in 1..Len(parts) :
            /\ Positions(parts[j], "=") # {}
            /\ SubSeq(parts[j], 1, SetMin(Positions(parts[j], "=")) - 1) = key}

SegmentValue(name, key) ==
    LET parts == Split(name, "/")
        part == parts[SetMax(SegmentsOf(name, key))]
    IN  SubSeq(part, SetMin(Positions(part, "=")) + 1, Len(part))

\* C21: a partitioned read with a filter reads only blobs of partitions whose
\* value for each filtered key is the filter's string exactly, so that every
\* row it returns has that string in the key's column; a partition whose
\* value only starts with the filter's string gives no row.
C21_FilterMatchesExactly ==
    \A c \in Callers :
        ( /\ Done(c, "read_parquet_partitioned")
          /\ call[c].err = "none" )
        => \A f \in 1..Len(call[c].partition_filter) :
               LET key == call[c].partition_filter[f][1]
                   value == call[c].partition_filter[f][2]
               IN  /\ \A j \in 1..Len(call[c].blobs) :
                          /\ SegmentsOf(call[c].blobs[j], key) # {}
                          /\ SegmentValue(call[c].blobs[j], key) = value
                   /\ \A r \in 1..Len(call[c].out_df.rows) :
                          Cell(call[c].out_df, r, key) = StrV(value)

\* The keys the "key=value" segments of name give.
SegmentKeys(name) ==
    LET parts == Split(name, "/")
    IN  {SubSeq(parts[j], 1, SetMin(Positions(parts[j], "=")) - 1) :
            j \in {h \in 1..Len(parts) : Positions(parts[h], "=") # {}}}

\* C22: in a partitioned read, the table of every blob read has, for every
\* segment of the blob's name that holds "=" (a segment of the base path and
\* the file name included), a column named by the text before the first "="
\* whose cell on every row is the text after it, whatever the blob's own
\* table held in a column of that name.
C22_SegmentsSetColumns ==
    \A c \in Callers :
        call[c].op = "read_parquet_partitioned"
            => \A j \in 1..Len(call[c].dfs) :
                   \A key \in SegmentKeys(call[c].blobs[j]) :
                       /\ InColumns(key, call[c].dfs[j])
                       /\ \A r \in 1..Len(call[c].dfs[j].rows) :
                              Cell(call[c].dfs[j], r, key)
                                  = StrV(SegmentValue(call[c].blobs[j], key))

\* C22 witness: a read has returned the rows of a blob whose base path is the
\* segment "v=9" and whose own table has a column v.
C22_Witness ==
    \E c \in Callers :
        /\ Done(c, "read_parquet_partitioned")
        /\ call[c].err = "none"
        /\ call[c].blob_name = SegBase
        /\ \E j \in 1..Len(call[c].dfs) :
               /\ InColumns(ColV, Decode(store[call[c].blobs[j]]))
               /\ Decode(store[call[c].blobs[j]]).rows # <<>>
               /\ 1 \in SegmentsOf(call[c].blobs[j], ColV)
               /\ call[c].out_df.rows # <<>>

\* C23: an append tests, reads and writes one and the same blob: when its
\* existence test found nothing and it went on to write the new rows alone,
\* no blob was at the name it wrote to.
C23_AppendOnePath ==
    \A c \in Callers :
        ( /\ Done(c, "append_parquet")
          /\ call[c].err = "none"
          /\ ~call[c].exists )
        => ~BlobExists(call[c].pre, NormalizeBlobName(call[c].blob_name))

\* The container a chunked write of df in chunks of k leaves when it began
\* with an empty one: chunks 0 up to count - 1.
RECURSIVE ChunksWritten(_, _, _, _)
ChunksWritten(df, base_blob_path, k, count) ==
    IF count = 0 THEN EmptyStore
    ELSE Put(ChunksWritten(df, base_blob_path, k, count - 1),
             ChunkBlobName(base_blob_path, count - 1),
             Encode(DataFrame(df.columns,
                              SubSeq(df.rows, (count - 1) * k + 1,
                                     Min(count * k, Len(df.rows))))))

\* C24: when a chunked write of T1 into an empty container has been followed
\* by a chunked write of T2 (at least one row, a positive chunk size) to the
\* same base path that returned without error, a chunked read of the base
\* path returns exactly the rows of T2.
C24_SecondWriteReplacesFirst ==
    \A c \in Callers :
        ( /\ Done(c, "read_parquet_chunked")
          /\ last_write.valid
          /\ last_write.op = "write_parquet_chunked"
          /\ last_write.blob_name = call[c].blob_name
          /\ last_write.chunk_size > 0
          /\ last_write.df.rows # <<>>
          /\ call[c].pre = store
          /\ \E T1 \in ChunkFrames, k \in 1..MaxChunkSize :
                 /\ T1.rows # <<>>
                 /\ last_write.pre
                        = ChunksWritten(T1, last_write.blob_name, k,
                                        CeilDiv(Len(T1.rows), k)) )
        => /\ call[c].err = "none"
           /\ call[c].out_df.rows = last_write.df.rows

\* C25: a chunked or partitioned read of a base path reads only blobs under
\* the directory of that base path: every blob it takes from the listing has
\* a name that begins with the base path followed by "/".
C25_ReadsOnlyUnderBase ==
    \A c \in Callers :
        call[c].op \in {"read_parquet_chunked", "read_parquet_partitioned"}
            => \A j \in 1..Len(call[c].blobs) :
                   StartsWith(call[c].blobs[j], RStrip(call[c].blob_name, "/") \o Slash)

ReadSideOps ==
    {"read_parquet", "read_parquet_partitioned", "read_parquet_chunked",
     "get_parquet_info", "list_blobs", "blob_exists", "get_blob_url"}

\* C26: no step of a read-side method (read_parquet, read_parquet_partitioned,
\* read_parquet_chunked, get_parquet_info, list_blobs, blob_exists,
\* get_blob_url) changes the store, whether the method is on its way to a
\* result or to an error: a step that begins, continues or ends such a call
\* leaves every blob as it was.
C26_ReadSideLeavesStore ==
    [][\A c \in Callers :
           (call[c].op \in ReadSideOps \/ call'[c].op \in ReadSideOps)
               => store' = store]_vars

\* C26 witness: after an upload changed the container, a read-side call over
\* a container that holds blobs has ended in a failed download, and the
\* container is as the call found it.
C26_Witness ==
    \E c \in Callers :
        /\ uploads > 0
        /\ store # EmptyStore
        /\ call[c].op \in ReadSideOps
        /\ call[c].pc = "done"
        /\ call[c].failed = "download"
        /\ store = call[c].pre

\* C27: upsert_to_azure_postgresql commits at most once in a call, and what
\* it commits is the temp-table creation, the target-table creation, the bulk
\* copy, the upsert and the temp-table drop, all of them, in that order; a
\* call that ran its try block to the end committed once; a call in which
\* one of these statements failed committed nothing, logged the error once
\* and raised nothing.
C27_CommitOnceAfterAllSteps ==
    pg.op = "upsert_to_azure_postgresql"
        => /\ pg.commits <= 1
           /\ Len(pg.committed) = pg.base + pg.commits
           /\ pg.commits = 1
                  => pg.committed[Len(pg.committed)]
                         = <<"create_temp", "create_target", "copy", "upsert",
                             "drop_temp">>
           /\ (DbDone /\ pg.failed = "none") => pg.commits = 1
           /\ pg.failed \in SqlSteps
                  => /\ DbDone
                     /\ pg.commits = 0
                     /\ pg.logged = 1
                     /\ ~pg.raised

\* C27 witness: after an upsert that committed, a second upsert has failed
\* at its bulk copy, and the server holds the first call's commit only.
C27_Witness ==
    /\ pg.op = "upsert_to_azure_postgresql"
    /\ DbDone
    /\ pg.failed = "copy"
    /\ Len(pg.committed) = 1
    /\ pg.base = 1

\* C28: when pull_from_db or upsert_to_azure_postgresql is about to return,
\* on success or after a failure, no connection it opened is still open.
C28_ConnectionsClosed ==
    DbDone => pg.open = 0

\* C29: with delete_if_no_errors set, close() of a PipelineLogger that has a
\* log file removes the file if and only if no record of level ERROR or
\* higher went to that file while the logger lived, by whichever way the
\* record came: the PipelineLogger's methods, its named logger or the
\* captured root logger.
C29_DeletedIffNoErrorWritten ==
    \A id \in 1..lg.made :
        ( /\ lg.inst[id].closed
          /\ lg.inst[id].delete_if_no_errors
          /\ lg.inst[id].file_handler )
        => (lg.inst[id].deleted <=> ~lg.inst[id].wrote_error)

\* The handlers a PipelineLogger made.
HandlersOf(id) == {FileHandler(id), StreamHandler(id)}

\* C30: after any sequence of init_logging and close_logging calls at most
\* one PipelineLogger has open handlers; every PipelineLogger that was the
\* global instance earlier has been closed and none of its handlers is open
\* or attached to a named logger or to the root logger; and get_logger
\* returns the logger of the current instance, or the root logger when there
\* is none.
C30_OneLiveInstance ==
    /\ Cardinality({id \in 1..lg.made : HandlersOf(id) \cap lg.open # {}}) <= 1
    /\ \A id \in 1..lg.made :
           id # lg.instance
               => /\ lg.inst[id].closed
                  /\ HandlersOf(id) \cap lg.open = {}
                  /\ \A n \in Loggers : HandlersOf(id) \cap lg.handlers[n] = {}
    /\ lg.got # "none"
           => lg.got = IF lg.instance = 0 THEN "root"
                       ELSE lg.inst[lg.instance].name

\* C30 witness: a second init_logging, with another name and without
\* capture_root, has replaced an instance that had its handlers on the root
\* logger, and get_logger has returned the second instance's logger.
C30_Witness ==
    /\ lg.made = 2
    /\ lg.instance = 2
    /\ lg.inst[1].capture_root
    /\ lg.inst[1].file_handler
    /\ ~lg.inst[2].capture_root
    /\ lg.inst[1].name # lg.inst[2].name
    /\ lg.got = lg.inst[2].name
    /\ HandlersOf(2) \cap lg.open # {}

=============================================================================
